---- MODULE Spec2Model ----
(***************************************************************************)
(* A model of edit-xml: the arena Document (src/src/document.rs), the      *)
(* Element tree-mutation API and the namespace resolver                    *)
(* (src/src/element.rs, src/src/element/sort.rs), and the parse / write    *)
(* pipeline (src/src/parser.rs, src/src/document.rs).                      *)
(*                                                                         *)
(* Handles are the 0-based indices of the source; record i of the store is *)
(* store[i + 1] here, since TLA+ sequences start at 1.                     *)
(***************************************************************************)
EXTENDS Integers, Sequences, FiniteSets, TLC

\* ------------------------------------------------------------------ bounds
\* Records a Document may hold (container included).
MaxElems == 3
\* Non-element nodes (Text) a Document may hold at once.
MaxText == 1
\* The pieces (characters or character references) of a value or a payload.
MaxPieces == 3

\* Element names offered to Element::new.
Names == {"a"}
\* Payloads offered for Node::Text.
Texts == {"t"}
\* Namespace-declaration maps offered to Element::with_data (prefix, value).
DeclMaps == {{}, {<<"p", "u">>}, {<<"p", "v">>}, {<<"", "u">>},
             {<<"xml", "u">>}, {<<"xmlns", "v">>, <<"", "v">>}}
\* Prefixes looked up.
Prefixes == {"", "p", "q", "xml", "xmlns"}

\* ------------------------------------------------------------ Option, Node
None == [some |-> FALSE]
Some(x) == [some |-> TRUE, v |-> x]

ElemNode(e) == [kind |-> "Element", id |-> e]
TextNode(s) == [kind |-> "Text", text |-> s]

\* Node::as_element
as_element(n) == IF n.kind = "Element" THEN Some(n.id) ELSE None

\* ------------------------------------------------------------ the Document
\* Element::container: the record of handle 0.
container == [full_name |-> "", attributes |-> {}, namespace_decls |-> {},
              parent |-> None, children |-> <<>>]

\* Document::default / Document::new
NewDocument ==
    [counter |-> 1, store |-> <<container>>, version |-> "1.0",
     standalone |-> None]

\* Element::is_container
is_container(e) == e = 0

\* Element::data
data(d, e) == d.store[e + 1]

\* Element::parent, Element::has_parent, Element::children
parent(d, e) == data(d, e).parent
has_parent(d, e) == parent(d, e).some
children(d, e) == data(d, e).children

\* The handles a Document has handed out.
Handles(d) == 0 .. (Len(d.store) - 1)

\* with_data that leaves the counter as it was.
with_data_keeps_counter(d, full_name, attributes, namespace_decls) ==
    [doc |-> [d EXCEPT !.store = Append(@, [full_name |-> full_name,
                                            attributes |-> attributes,
                                            namespace_decls |-> namespace_decls,
                                            parent |-> None,
                                            children |-> <<>>])],
     res |-> "Ok",
     ret |-> <<ElemNode(d.counter)>>]

\* with_data that hands out the handle before the counter.
with_data_previous_handle(d, full_name, attributes, namespace_decls) ==
    [doc |-> [d EXCEPT !.store = Append(@, [full_name |-> full_name,
                                            attributes |-> attributes,
                                            namespace_decls |-> namespace_decls,
                                            parent |-> None,
                                            children |-> <<>>]),
                       !.counter = @ + 1],
     res |-> "Ok",
     ret |-> <<ElemNode(d.counter - 1)>>]

\* Element::with_data: the new record is appended and gets the handle `counter`.
with_data(d, full_name, attributes, namespace_decls) ==
    [doc |-> [d EXCEPT !.store = Append(@, [full_name |-> full_name,
                                            attributes |-> attributes,
                                            namespace_decls |-> namespace_decls,
                                            parent |-> None,
                                            children |-> <<>>]),
                       !.counter = @ + 1],
     res |-> "Ok",
     ret |-> <<ElemNode(d.counter)>>]

\* Element::new
Element_new(d, full_name) == with_data(d, full_name, {}, {})

\* ------------------------------------------------------- sequence helpers
\* Vec::insert(index, x), 0-based, index <= len.
VecInsert(s, index, x) ==
    SubSeq(s, 1, index) \o <<x>> \o SubSeq(s, index + 1, Len(s))

\* Vec::remove(index), 0-based, index < len: the sequence without that entry.
VecRemove(s, index) ==
    SubSeq(s, 1, index) \o SubSeq(s, index + 2, Len(s))

\* Document::number_of_elements
number_of_elements(d) == Len(d.store)

\* Document::is_empty
is_empty(d) == Len(d.store) = 1

\* ----------------------------------------------------------- tree mutation
\* elem.mut_data(doc).parent = p
set_parent(d, e, p) == [d EXCEPT !.store[e + 1].parent = p]

\* self.mut_data(doc).children = c
set_children(d, e, c) == [d EXCEPT !.store[e + 1].children = c]

\* push_child without the single-parent check: an attached element is given a
\* second parent.
push_child_no_parent_check(d, self, node) ==
    IF node.kind = "Element" /\ is_container(node.id)
    THEN [doc |-> d, res |-> "ContainerCannotMove", ret |-> <<>>]
    ELSE LET d1 == IF node.kind = "Element"
                   THEN set_parent(d, node.id, Some(self))
                   ELSE d
         IN [doc |-> set_children(d1, self, Append(children(d1, self), node)),
             res |-> "Ok", ret |-> <<>>]

\* push_child without the container check.
push_child_moves_container(d, self, node) ==
    IF node.kind = "Element" /\ has_parent(d, node.id)
    THEN [doc |-> d, res |-> "HasAParent", ret |-> <<>>]
    ELSE LET d1 == IF node.kind = "Element"
                   THEN set_parent(d, node.id, Some(self))
                   ELSE d
         IN [doc |-> set_children(d1, self, Append(children(d1, self), node)),
             res |-> "Ok", ret |-> <<>>]

\* Element::push_child
push_child(d, self, node) ==
    IF node.kind = "Element" /\ is_container(node.id)
    THEN [doc |-> d, res |-> "ContainerCannotMove", ret |-> <<>>]
    ELSE IF node.kind = "Element" /\ has_parent(d, node.id)
    THEN [doc |-> d, res |-> "HasAParent", ret |-> <<>>]
    ELSE LET d1 == IF node.kind = "Element"
                   THEN set_parent(d, node.id, Some(self))
                   ELSE d
         IN [doc |-> set_children(d1, self, Append(children(d1, self), node)),
             res |-> "Ok", ret |-> <<>>]

\* Element::push_to
push_to(d, self, parent_) == push_child(d, parent_, ElemNode(self))

\* insert_child that ignores the index and appends.
insert_child_appends(d, self, index, node) ==
    IF node.kind = "Element" /\ is_container(node.id)
    THEN [doc |-> d, res |-> "ContainerCannotMove", ret |-> <<>>]
    ELSE IF node.kind = "Element" /\ has_parent(d, node.id)
    THEN [doc |-> d, res |-> "HasAParent", ret |-> <<>>]
    ELSE LET d1 == IF node.kind = "Element"
                   THEN set_parent(d, node.id, Some(self))
                   ELSE d
         IN IF index > Len(children(d1, self))
            THEN [doc |-> d1, res |-> "panic", ret |-> <<>>]
            ELSE [doc |-> set_children(d1, self, Append(children(d1, self), node)),
                  res |-> "Ok", ret |-> <<>>]

\* Element::insert_child. The parent link is written before Vec::insert checks
\* the index, so a call that panics on index > len has already set it.
insert_child(d, self, index, node) ==
    IF node.kind = "Element" /\ is_container(node.id)
    THEN [doc |-> d, res |-> "ContainerCannotMove", ret |-> <<>>]
    ELSE IF node.kind = "Element" /\ has_parent(d, node.id)
    THEN [doc |-> d, res |-> "HasAParent", ret |-> <<>>]
    ELSE LET d1 == IF node.kind = "Element"
                   THEN set_parent(d, node.id, Some(self))
                   ELSE d
         IN IF index > Len(children(d1, self))
            THEN [doc |-> d1, res |-> "panic", ret |-> <<>>]
            ELSE [doc |-> set_children(d1, self,
                                       VecInsert(children(d1, self), index, node)),
                  res |-> "Ok", ret |-> <<>>]

\* remove_child that leaves the removed element's parent link in place.
remove_child_keeps_parent(d, self, index) ==
    IF index >= Len(children(d, self))
    THEN [doc |-> d, res |-> "panic", ret |-> <<>>]
    ELSE [doc |-> set_children(d, self, VecRemove(children(d, self), index)),
          res |-> "Ok", ret |-> <<children(d, self)[index + 1]>>]

\* remove_child that looks the node up after the removal: the parent link
\* cleared is that of the node that has moved to the index.
remove_child_after_removal(d, self, index) ==
    IF index >= Len(children(d, self))
    THEN [doc |-> d, res |-> "panic", ret |-> <<>>]
    ELSE LET node == children(d, self)[index + 1]
             d1 == set_children(d, self, VecRemove(children(d, self), index))
         IN [doc |-> IF index < Len(children(d1, self))
                        /\ children(d1, self)[index + 1].kind = "Element"
                     THEN set_parent(d1, children(d1, self)[index + 1].id, None)
                     ELSE d1,
             res |-> "Ok", ret |-> <<node>>]

\* Element::remove_child. Vec::remove panics on index >= len before it changes
\* anything.
remove_child(d, self, index) ==
    IF index >= Len(children(d, self))
    THEN [doc |-> d, res |-> "panic", ret |-> <<>>]
    ELSE LET node == children(d, self)[index + 1]
             d1 == set_children(d, self, VecRemove(children(d, self), index))
         IN [doc |-> IF node.kind = "Element"
                     THEN set_parent(d1, node.id, None)
                     ELSE d1,
             res |-> "Ok", ret |-> <<node>>]

\* Element::pop_child: Vec::pop, None on an empty list.
pop_child(d, self) ==
    IF Len(children(d, self)) = 0
    THEN [doc |-> d, res |-> "Ok", ret |-> <<>>]
    ELSE LET len == Len(children(d, self))
             child == children(d, self)[len]
             d1 == set_children(d, self, SubSeq(children(d, self), 1, len - 1))
         IN [doc |-> IF child.kind = "Element"
                     THEN set_parent(d1, child.id, None)
                     ELSE d1,
             res |-> "Ok", ret |-> <<child>>]

\* clear_children that removes from the end: the nodes come back reversed.
RECURSIVE clear_loop_from_end(_, _, _, _)
clear_loop_from_end(d, self, count, removed) ==
    IF count = 0
    THEN [doc |-> d, res |-> "Ok", ret |-> removed]
    ELSE LET r == remove_child(d, self, count - 1)
         IN IF r.res = "panic"
            THEN [doc |-> r.doc, res |-> "panic", ret |-> removed]
            ELSE clear_loop_from_end(r.doc, self, count - 1, removed \o r.ret)

\* The loop of Element::clear_children: `count` times remove_child(doc, 0).
RECURSIVE clear_loop(_, _, _, _)
clear_loop(d, self, count, removed) ==
    IF count = 0
    THEN [doc |-> d, res |-> "Ok", ret |-> removed]
    ELSE LET r == remove_child(d, self, 0)
         IN IF r.res = "panic"
            THEN [doc |-> r.doc, res |-> "panic", ret |-> removed]
            ELSE clear_loop(r.doc, self, count - 1, removed \o r.ret)

\* Element::clear_children
clear_children(d, self) == clear_loop(d, self, Len(children(d, self)), <<>>)

\* position that reports the first child whatever it is.
position_first(c, self) == IF Len(c) = 0 THEN None ELSE Some(0)

\* iter().position(|n| n.as_element() == Some(self)): the first index, or None.
position(c, self) ==
    LET hits == {i \in 1 .. Len(c) : as_element(c[i]) = Some(self)}
    IN IF hits = {} THEN None
       ELSE Some((CHOOSE i \in hits : \A j \in hits : i <= j) - 1)

\* detach that takes the element out of the child list but keeps its parent
\* link.
detach_keeps_parent(d, self) ==
    IF is_container(self)
    THEN [doc |-> d, res |-> "ContainerCannotMove", ret |-> <<>>]
    ELSE IF parent(d, self).some
    THEN LET p == parent(d, self).v
             pos == position(children(d, p), self)
         IN IF ~pos.some
            THEN [doc |-> d, res |-> "panic", ret |-> <<>>]
            ELSE [doc |-> set_children(d, p, VecRemove(children(d, p), pos.v)),
                  res |-> "Ok", ret |-> <<>>]
    ELSE [doc |-> d, res |-> "Ok", ret |-> <<>>]

\* Element::detach
detach(d, self) ==
    IF is_container(self)
    THEN [doc |-> d, res |-> "ContainerCannotMove", ret |-> <<>>]
    ELSE IF parent(d, self).some
    THEN LET p == parent(d, self).v
             pos == position(children(d, p), self)
         IN IF ~pos.some
            THEN [doc |-> d, res |-> "panic", ret |-> <<>>]
            ELSE [doc |-> remove_child(d, p, pos.v).doc, res |-> "Ok", ret |-> <<>>]
    ELSE [doc |-> d, res |-> "Ok", ret |-> <<>>]

\* Element::set_text_content
set_text_content(d, self, text) ==
    LET c == clear_children(d, self)
    IN IF c.res = "panic"
       THEN [doc |-> c.doc, res |-> "panic", ret |-> <<>>]
       ELSE push_child(c.doc, self, TextNode(text))

\* -------------------------------------------------------------- namespaces
\* A HashMap<String, String> is kept as a set of <<key, value>> pairs with
\* distinct keys. HashMap::get, HashMap::insert:
map_get(m, k) ==
    IF \E kv \in m : kv[1] = k
    THEN Some((CHOOSE kv \in m : kv[1] = k)[2])
    ELSE None
map_insert(m, k, v) == {kv \in m : kv[1] # k} \cup {<<k, v>>}

XML_NS == "http://www.w3.org/XML/1998/namespace"
XMLNS_NS == "http://www.w3.org/2000/xmlns/"

\* The call does not return: the loop runs forever.
Diverges == [some |-> FALSE, diverges |-> TRUE]

\* The loop of namespace_for_prefix. It has no exit but a declaration found or
\* a record without a parent; a walk that has made more steps than the store
\* has records is on a parent cycle declaring nothing and never ends.
RECURSIVE nfp_loop(_, _, _, _)
nfp_loop(d, elem, prefix, steps) ==
    IF steps > Len(d.store) THEN Diverges
    ELSE LET value == map_get(data(d, elem).namespace_decls, prefix)
         IN IF value.some THEN value
            ELSE IF parent(d, elem).some
            THEN nfp_loop(d, parent(d, elem).v, prefix, steps + 1)
            ELSE None

\* namespace_for_prefix without the reserved prefixes: xml and xmlns are looked
\* up like any other.
namespace_for_prefix_unreserved(d, self, prefix) == nfp_loop(d, self, prefix, 0)

\* Element::namespace_for_prefix
namespace_for_prefix(d, self, prefix) ==
    IF prefix = "xml" THEN Some(XML_NS)
    ELSE IF prefix = "xmlns" THEN Some(XMLNS_NS)
    ELSE nfp_loop(d, self, prefix, 0)

\* ------------------------------------------------------------------- sort
\* The comparators offered to sort_children_cloned, each the comparison of a
\* key: elements before other nodes, or other nodes first and then elements
\* by descending handle.
Compares == {"elements_first", "id_desc"}

sort_key(cmp, n) ==
    IF cmp = "elements_first"
    THEN (IF n.kind = "Element" THEN 0 ELSE 1)
    ELSE (IF n.kind = "Element" THEN MaxElems + 1 - n.id ELSE 0)

\* compare(doc, a, b) as an Ordering
compare(cmp, a, b) ==
    IF sort_key(cmp, a) < sort_key(cmp, b) THEN "Less"
    ELSE IF sort_key(cmp, a) > sort_key(cmp, b) THEN "Greater"
    ELSE "Equal"

\* A sort that is not stable: each entry is inserted before the entries
\* already placed that compare Equal to it.
RECURSIVE sort_by_unstable(_, _)
sort_by_unstable(s, cmp) ==
    IF Len(s) <= 1 THEN s
    ELSE LET front == sort_by_unstable(SubSeq(s, 1, Len(s) - 1), cmp)
             x == s[Len(s)]
             keep == {i \in 1 .. Len(front) : compare(cmp, front[i], x) # "Less"}
             at == IF keep = {} THEN Len(front)
                   ELSE (CHOOSE i \in keep : \A j \in keep : i <= j) - 1
         IN VecInsert(front, at, x)

\* slice::sort_by, a stable sort: each entry is inserted behind every entry
\* already placed that does not compare Greater than it.
RECURSIVE sort_by(_, _)
sort_by(s, cmp) ==
    IF Len(s) <= 1 THEN s
    ELSE LET front == sort_by(SubSeq(s, 1, Len(s) - 1), cmp)
             x == s[Len(s)]
             keep == {i \in 1 .. Len(front) : compare(cmp, front[i], x) = "Greater"}
             at == IF keep = {} THEN Len(front)
                   ELSE (CHOOSE i \in keep : \A j \in keep : i <= j) - 1
         IN VecInsert(front, at, x)

\* Element::sort_children_cloned
sort_children_cloned(d, self, cmp) ==
    [doc |-> set_children(d, self, sort_by(children(d, self), cmp)),
     res |-> "Ok", ret |-> <<>>]

\* ---------------------------------------------------------------- strings
\* The strings the parser reads and the writer emits are sequences of
\* characters, so that escaping and unescaping are computed and not assumed.
Err == [ok |-> FALSE]
Ok(x) == [ok |-> TRUE, v |-> x]

\* The smallest member of a non-empty set of numbers.
Min(S) == CHOOSE i \in S : \A j \in S : i <= j

\* quick_xml::escape::escape on one character, and on a string.
escape_char(c) ==
    CASE c = "<" -> <<"&", "l", "t", ";">>
      [] c = ">" -> <<"&", "g", "t", ";">>
      [] c = "&" -> <<"&", "a", "m", "p", ";">>
      [] c = "'" -> <<"&", "a", "p", "o", "s", ";">>
      [] c = "\"" -> <<"&", "q", "u", "o", "t", ";">>
      [] OTHER -> <<c>>

escape(s) ==
    LET f[i \in 0 .. Len(s)] ==
            IF i = 0 THEN <<>> ELSE f[i - 1] \o escape_char(s[i])
    IN f[Len(s)]

\* quick_xml::escape::resolve_predefined_entity
resolve_predefined_entity(pat) ==
    CASE pat = <<"l", "t">> -> Some("<")
      [] pat = <<"g", "t">> -> Some(">")
      [] pat = <<"a", "m", "p">> -> Some("&")
      [] pat = <<"a", "p", "o", "s">> -> Some("'")
      [] pat = <<"q", "u", "o", "t">> -> Some("\"")
      [] OTHER -> None

\* parse_number, on the character references the inputs use.
parse_number(num) ==
    CASE num = <<"x", "D">> -> Ok("\r")
      [] num = <<"3", "8">> -> Ok("&")
      [] num = <<"x", "2", "0">> -> Ok(" ")
      [] OTHER -> Err

\* unescape_with: every &...; is replaced by what it names; an & without its ;
\* (the next & or ; after it is not a ;), an unknown name and a character
\* reference that is no number are errors.  Under the soft-fail-unescape
\* feature an unknown name is kept as written instead; no input below has one,
\* so both builds read the inputs alike.
RECURSIVE unescape_from(_, _, _)

\* The reference found between the & at i and the ; at end, resolved: c.
unescape_resolved(raw, end, acc, c) ==
    IF c.ok THEN unescape_from(raw, end + 1, Append(acc, c.v)) ELSE Err

\* The pattern between & and ; is a character reference or an entity name.
resolve_pattern(pat) ==
    IF Len(pat) > 0 /\ pat[1] = "#" THEN parse_number(Tail(pat))
    ELSE IF resolve_predefined_entity(pat).some
    THEN Ok(resolve_predefined_entity(pat).v)
    ELSE Err

\* The & at i, and marks: the places of every & and ; after it.
unescape_entity(raw, i, acc, marks) ==
    IF marks = {} \/ raw[Min(marks)] # ";" THEN Err
    ELSE unescape_resolved(raw, Min(marks), acc,
                           resolve_pattern(SubSeq(raw, i + 1, Min(marks) - 1)))

unescape_from(raw, i, acc) ==
    IF i > Len(raw) THEN Ok(acc)
    ELSE IF raw[i] # "&" THEN unescape_from(raw, i + 1, Append(acc, raw[i]))
    ELSE unescape_entity(raw, i, acc,
                         {j \in (i + 1) .. Len(raw) : raw[j] \in {"&", ";"}})

\* bytes_to_unescaped_string / XMLStringUtils::unescape_to_string
unescape_to_string(raw) == unescape_from(raw, 1, <<>>)

\* <[u8]>::escape_ascii on one character, and on a string.
escape_ascii_char(c) ==
    CASE c = "\t" -> <<"\\", "t">>
      [] c = "\r" -> <<"\\", "r">>
      [] c = "\n" -> <<"\\", "n">>
      [] c = "\\" -> <<"\\", "\\">>
      [] c = "'" -> <<"\\", "'">>
      [] c = "\"" -> <<"\\", "\"">>
      [] OTHER -> <<c>>

escape_ascii(s) ==
    LET f[i \in 0 .. Len(s)] ==
            IF i = 0 THEN <<>> ELSE f[i - 1] \o escape_ascii_char(s[i])
    IN f[Len(s)]

\* parser::is_whitespace, parser::only_has_whitespace
is_whitespace(c) == c \in {"\r", "\n", "\t", " "}
only_has_whitespace(s) == \A i \in 1 .. Len(s) : is_whitespace(s[i])

\* The text of a Text event under Config::trim_text: without its leading and
\* trailing whitespace.
trim_start(s) ==
    LET keep == {i \in 1 .. Len(s) : ~is_whitespace(s[i])}
    IN IF keep = {} THEN <<>> ELSE SubSeq(s, Min(keep), Len(s))

trim_end(s) ==
    LET keep == {i \in 1 .. Len(s) : ~is_whitespace(s[i])}
    IN IF keep = {} THEN <<>>
       ELSE SubSeq(s, 1, CHOOSE i \in keep : \A j \in keep : j <= i)

trim(s) == trim_end(trim_start(s))

\* The end of parser::normalize_space: a last space is dropped.
pop_last_space(normalized) ==
    IF Len(normalized) > 0 /\ normalized[Len(normalized)] = " "
    THEN SubSeq(normalized, 1, Len(normalized) - 1)
    ELSE normalized

\* parser::normalize_space
normalize_space(bytes) ==
    LET f[i \in 0 .. Len(bytes)] ==
            IF i = 0
            THEN [normalized |-> <<>>, char_found |-> FALSE, last_space |-> FALSE]
            ELSE IF is_whitespace(bytes[i])
            THEN IF f[i - 1].char_found /\ ~f[i - 1].last_space
                 THEN [f[i - 1] EXCEPT !.normalized = Append(@, " "),
                                       !.last_space = TRUE]
                 ELSE f[i - 1]
            ELSE [normalized |-> Append(f[i - 1].normalized, bytes[i]),
                  char_found |-> TRUE, last_space |-> FALSE]
    IN pop_last_space(f[Len(bytes)].normalized)

\* ----------------------------------------------------------------- parser
\* The events the tokenizer (quick_xml::Reader) reports: a tag with its name
\* and its attributes as <<key, raw value>> pairs in document order, a node
\* with its raw content, the declaration with its version and standalone
\* values, and the end of the input.
StartEv(qname, attrs) == [type |-> "Start", name |-> qname, attrs |-> attrs]
EmptyEv(qname, attrs) == [type |-> "Empty", name |-> qname, attrs |-> attrs]
EndEv(qname) == [type |-> "End", name |-> qname]
TextEv(raw) == [type |-> "Text", content |-> raw]
CommentEv(raw) == [type |-> "Comment", content |-> raw]
CDataEv(raw) == [type |-> "CData", content |-> raw]
PIEv(raw) == [type |-> "PI", content |-> raw]
DocTypeEv(raw) == [type |-> "DocType", content |-> raw]
DeclEv(version, encoding, standalone) ==
    [type |-> "Decl", version |-> version, encoding |-> encoding,
     standalone |-> standalone]
Eof == [type |-> "Eof"]

\* The nodes that are not elements or text.
CommentNode(s) == [kind |-> "Comment", text |-> s]
CDataNode(s) == [kind |-> "CData", text |-> s]
PINode(s) == [kind |-> "PI", text |-> s]
DocTypeNode(s) == [kind |-> "DocType", text |-> s]

\* Element::has_children
has_children(d, e) == Len(children(d, e)) > 0

XMLNS == <<"x", "m", "l", "n", "s">>

\* attributes::is_xlmns: the bytes are xmlns or start with xmlns.
is_xlmns(bytes) ==
    \/ bytes = XMLNS
    \/ Len(bytes) >= Len(XMLNS) /\ SubSeq(bytes, 1, Len(XMLNS)) = XMLNS

\* QName::decompose: the local name, and the prefix before the first colon.
decompose(key) ==
    LET colons == {i \in 1 .. Len(key) : key[i] = ":"}
    IN IF colons = {}
       THEN [local |-> key, prefix |-> None]
       ELSE [local |-> SubSeq(key, Min(colons) + 1, Len(key)),
             prefix |-> Some(SubSeq(key, 1, Min(colons) - 1))]

\* StandaloneValue::try_from
StandaloneValue_try_from(value) ==
    IF value = "yes" THEN Ok("Yes")
    ELSE IF value = "no" THEN Ok("No")
    ELSE Err

\* The value of an attribute unescaped first and normalised after.
attribute_value_unescape_first(opts, raw) ==
    IF opts.normalize_attribute_value_space /\ unescape_to_string(raw).ok
    THEN Ok(normalize_space(unescape_to_string(raw).v))
    ELSE unescape_to_string(raw)

\* The value of an attribute: unescaped, and normalised first when asked.
attribute_value(opts, raw) ==
    IF opts.normalize_attribute_value_space
    THEN unescape_to_string(normalize_space(raw))
    ELSE unescape_to_string(raw)

\* One turn of the loop of element_attributes: the attribute goes to the
\* namespace declarations when its prefix is xmlns (keyed by its local name) or
\* its local name is xmlns (keyed by the empty string), else to the attributes
\* under its whole name.
put_attribute(maps, whole, key, value) ==
    IF ~value.ok THEN Err
    ELSE IF key.prefix.some /\ is_xlmns(key.prefix.v)
    THEN Ok([maps EXCEPT !.namespace_decls = map_insert(@, key.local, value.v)])
    ELSE IF is_xlmns(key.local)
    THEN Ok([maps EXCEPT !.namespace_decls = map_insert(@, <<>>, value.v)])
    ELSE Ok([maps EXCEPT !.attributes = map_insert(@, whole, value.v)])

RECURSIVE attributes_from(_, _, _, _)
attributes_from(opts, attrs, i, acc) ==
    IF i > Len(attrs) \/ ~acc.ok THEN acc
    ELSE attributes_from(opts, attrs, i + 1,
                         put_attribute(acc.v, attrs[i][1], decompose(attrs[i][1]),
                                       attribute_value(opts, attrs[i][2])))

\* DocumentParser::element_attributes: the attributes of a tag in order.
element_attributes(opts, attrs) ==
    attributes_from(opts, attrs, 1,
                    Ok([attributes |-> {}, namespace_decls |-> {}]))

\* The parser: its Document, its element_stack, and how far it is: "going",
\* "finished" (the end of the input was met), "Ok" or the error it stopped with.
NewParser ==
    [doc |-> NewDocument, element_stack |-> <<0>>, res |-> "going"]

Fail(p, error) == [p EXCEPT !.res = error]

\* *self.element_stack.last()
stack_last(p) == p.element_stack[Len(p.element_stack)]

\* parent.push_child(&mut self.doc, node) on the top of the stack.
push_to_last(p, node) ==
    IF Len(p.element_stack) = 0 THEN Fail(p, "GenericMalformedTree")
    ELSE [p EXCEPT !.doc = push_child(p.doc, stack_last(p), node).doc]

\* create_element that pushes the element made to the container.
create_pushed_to_container(p, push, made) ==
    [p EXCEPT !.doc = push_child(made.doc, 0, made.ret[1]).doc,
              !.element_stack = IF push THEN Append(@, made.ret[1].id) ELSE @]

\* The end of create_element: the element made is pushed to the parent, and on
\* the stack when the tag is a start tag.
create_pushed(p, push, made) ==
    [p EXCEPT !.doc = push_child(made.doc, stack_last(p), made.ret[1]).doc,
              !.element_stack = IF push THEN Append(@, made.ret[1].id) ELSE @]

create_with(p, ev, push, maps) ==
    IF ~maps.ok THEN Fail(p, "CannotDecode")
    ELSE create_pushed(p, push,
                       with_data(p.doc, ev.name, maps.v.attributes,
                                 maps.v.namespace_decls))

\* DocumentParser::create_element under the parent on top of the stack; `push`
\* tells a start tag from an empty tag.
create_element(p, opts, ev, push) ==
    IF Len(p.element_stack) = 0 THEN Fail(p, "GenericMalformedTree")
    ELSE create_with(p, ev, push, element_attributes(opts, ev.attrs))

\* The Text arm once the content is unescaped.
push_text(p, content) ==
    IF ~content.ok THEN Fail(p, "CannotDecode")
    ELSE push_to_last(p, TextNode(content.v))

\* The DocType arm once the content is unescaped: one leading space is
\* stripped.
push_doctype(p, raw) ==
    IF ~raw.ok THEN Fail(p, "CannotDecode")
    ELSE push_to_last(p, DocTypeNode(IF Len(raw.v) > 0 /\ raw.v[1] = " "
                                     THEN Tail(raw.v) ELSE raw.v))

\* The End arm without the empty text child.
pop_element_no_empty_text(p, opts) ==
    IF Len(p.element_stack) = 0 THEN Fail(p, "GenericMalformedTree")
    ELSE [p EXCEPT !.element_stack = SubSeq(@, 1, Len(@) - 1)]

\* The End arm: the element is popped, and gets an empty text child when it has
\* no child and empty_text_node is set.
pop_element(p, opts) ==
    IF Len(p.element_stack) = 0 THEN Fail(p, "GenericMalformedTree")
    ELSE [p EXCEPT !.element_stack = SubSeq(@, 1, Len(@) - 1),
                   !.doc = IF /\ opts.empty_text_node
                              /\ ~has_children(p.doc, stack_last(p))
                           THEN push_child(p.doc, stack_last(p),
                                           TextNode(<<>>)).doc
                           ELSE @]

\* DocumentParser::handle_event
handle_event(p, opts, ev) ==
    CASE ev.type = "Start" -> create_element(p, opts, ev, TRUE)
      [] ev.type = "End" -> pop_element(p, opts)
      [] ev.type = "Empty" -> create_element(p, opts, ev, FALSE)
      [] ev.type = "Text" ->
            IF opts.ignore_whitespace_only /\ only_has_whitespace(ev.content)
            THEN p
            ELSE IF Len(ev.content) = 0 THEN p
            ELSE push_text(p, unescape_to_string(ev.content))
      [] ev.type = "DocType" ->
            push_doctype(p, unescape_to_string(ev.content))
      [] ev.type = "Comment" ->
            push_to_last(p, CommentNode(escape_ascii(ev.content)))
      [] ev.type = "CData" -> push_to_last(p, CDataNode(ev.content))
      [] ev.type = "PI" -> push_to_last(p, PINode(ev.content))
      [] ev.type = "Decl" -> Fail(p, "UnexpectedItem")
      [] ev.type = "Eof" -> [p EXCEPT !.res = "finished"]

\* The encoding labels Encoding::for_label knows, of those the inputs use.
Labels == {"UTF-8", "utf-8"}

\* The end of handle_decl: the standalone value.
set_standalone(p, standalone) ==
    IF ~standalone.some THEN [p EXCEPT !.doc.standalone = None]
    ELSE IF ~StandaloneValue_try_from(standalone.v).ok
    THEN Fail(p, "InvalidStandAloneValue")
    ELSE [p EXCEPT !.doc.standalone =
             Some(StandaloneValue_try_from(standalone.v).v)]

\* DocumentParser::handle_decl: the version, then the encoding label, then the
\* standalone value.
handle_decl(p, ev) ==
    IF ev.encoding.some /\ ev.encoding.v \notin Labels
    THEN Fail([p EXCEPT !.doc.version = ev.version], "CannotDecode")
    ELSE set_standalone([p EXCEPT !.doc.version = ev.version], ev.standalone)

\* Reader::read_event_into: the next event of the input and the input left.
\* Under Config::trim_text a Text event comes without its leading and trailing
\* whitespace, and not at all when nothing is left of it; a DocType event
\* comes without the whitespace that follows the keyword.
RECURSIVE read_event(_, _)
read_event(input, trim_text) ==
    IF Len(input) = 0 THEN [ev |-> Eof, rest |-> <<>>]
    ELSE IF Head(input).type = "Text" /\ trim_text
    THEN IF trim(Head(input).content) = <<>>
         THEN read_event(Tail(input), trim_text)
         ELSE [ev |-> TextEv(trim(Head(input).content)), rest |-> Tail(input)]
    ELSE IF Head(input).type = "DocType"
    THEN [ev |-> DocTypeEv(trim_start(Head(input).content)),
          rest |-> Tail(input)]
    ELSE [ev |-> Head(input), rest |-> Tail(input)]

\* The start of parse_start: a first event that is an empty text, or a blank
\* one when these are ignored, is skipped.
skip_first_text(opts, first) ==
    IF /\ first.ev.type = "Text"
       /\ \/ Len(first.ev.content) = 0
          \/ /\ opts.ignore_whitespace_only
             /\ only_has_whitespace(first.ev.content)
    THEN read_event(first.rest, opts.trim_text)
    ELSE first

\* The parser after an event and the input left; the end of the input met by
\* parse_start ends the parse with Ok.
after_first(p1, rest) ==
    [p |-> IF p1.res = "finished" THEN [p1 EXCEPT !.res = "Ok"] ELSE p1,
     input |-> rest]

\* The first event is the declaration, or an error if one is required, or an
\* event like the rest.
first_event(p, opts, r) ==
    after_first(IF r.ev.type = "Decl" THEN handle_decl(p, r.ev)
                ELSE IF opts.require_decl THEN Fail(p, "MissingDeclaration")
                ELSE handle_event(p, opts, r.ev),
                r.rest)

\* DocumentParser::parse_start up to its call of parse_content.
parse_start(p, opts, input) ==
    first_event(p, opts,
                skip_first_text(opts, read_event(input, opts.trim_text)))

\* The end of the input accepted with elements still open.
after_event_any_stack(p1, rest) ==
    [p |-> IF p1.res = "finished" THEN [p1 EXCEPT !.res = "Ok"] ELSE p1,
     input |-> rest]

\* The end of the input met by parse_content: only the container may be left
\* on the stack.
after_event(p1, rest) ==
    [p |-> IF p1.res = "finished"
           THEN IF Len(p1.element_stack) = 1
                THEN [p1 EXCEPT !.res = "Ok"]
                ELSE [p1 EXCEPT !.res = "MissingClosingTag"]
           ELSE p1,
     input |-> rest]

next_event(p, opts, r) == after_event(handle_event(p, opts, r.ev), r.rest)

\* One turn of the loop of DocumentParser::parse_content.
parse_content(p, opts, input) ==
    next_event(p, opts, read_event(input, opts.trim_text))

\* ----------------------------------------------------------------- writer
\* WriteOptions::default: two spaces a level.
indent_size == 2

\* quick_xml::Writer::new_with_indent: what it has written, as the events a
\* reader of that text meets, whether the next tag starts on a new line, and
\* the depth of the indentation.
NewWriter == [out |-> <<>>, should_line_break |-> FALSE, depth |-> 0]

\* The line break and indentation the writer puts before a tag.
Indentation(depth) == <<"\n">> \o [i \in 1 .. (depth * indent_size) |-> " "]

\* Text written next to text reads back as one Text event.
put_text(out, raw) ==
    IF Len(raw) = 0 THEN out
    ELSE IF Len(out) > 0 /\ out[Len(out)].type = "Text"
    THEN [out EXCEPT ![Len(out)].content = @ \o raw]
    ELSE Append(out, TextEv(raw))

\* Writer::write_wrapped: the tag goes on a new line, indented to the depth,
\* when a line break is due.
write_wrapped(w, depth, ev) ==
    [out |-> Append(IF w.should_line_break
                    THEN put_text(w.out, Indentation(depth))
                    ELSE w.out,
                    ev),
     should_line_break |-> TRUE,
     depth |-> IF ev.type = "Start" THEN depth + 1 ELSE depth]

\* Writer::write_event: tags, comments, declarations, instructions and doctypes
\* are written wrapped, an end tag one level less deep; text and CDATA are
\* written where the writer stands and no line break follows them.
write_event(w, ev) ==
    CASE ev.type = "Text" ->
            [w EXCEPT !.out = put_text(@, ev.content),
                      !.should_line_break = FALSE]
      [] ev.type = "CData" ->
            [w EXCEPT !.out = Append(@, ev), !.should_line_break = FALSE]
      [] ev.type = "Eof" -> [w EXCEPT !.should_line_break = TRUE]
      [] ev.type = "End" -> write_wrapped(w, w.depth - 1, ev)
      [] OTHER -> write_wrapped(w, w.depth, ev)

\* The entries of a HashMap in the order an iteration meets them.
RECURSIVE map_iter(_)
map_iter(m) ==
    IF m = {} THEN <<>>
    ELSE <<CHOOSE x \in m : TRUE>> \o map_iter(m \ {CHOOSE x \in m : TRUE})

\* BytesStart::push_attribute((key, value)): the value is escaped.
push_attribute(attrs, key, value) == Append(attrs, <<key, escape(value)>>)

\* The first loop of write_element: every attribute, its value escaped and
\* handed to push_attribute.
RECURSIVE push_attributes(_, _)
push_attributes(start, a) ==
    IF Len(a) = 0 THEN start
    ELSE push_attributes(push_attribute(start, Head(a)[1], escape(Head(a)[2])),
                         Tail(a))

\* The second loop: every namespace declaration as xmlns or xmlns:prefix.
RECURSIVE push_namespace_decls(_, _)
push_namespace_decls(start, n) ==
    IF Len(n) = 0 THEN start
    ELSE push_namespace_decls(
             push_attribute(start,
                            IF Head(n)[1] = <<>> THEN XMLNS
                            ELSE XMLNS \o <<":">> \o Head(n)[1],
                            escape(Head(n)[2])),
             Tail(n))

\* The attributes of the start tag write_element builds.
start_tag_attributes(d, element) ==
    push_namespace_decls(push_attributes(<<>>,
                                         map_iter(data(d, element).attributes)),
                         map_iter(data(d, element).namespace_decls))

RECURSIVE write_nodes(_, _, _)

\* The end of write_element: a start tag, the children and an end tag, or an
\* empty tag for an element without children.
write_tags(d, w, element, name_bytes, start) ==
    IF has_children(d, element)
    THEN write_event(write_nodes(d, write_event(w, StartEv(name_bytes, start)),
                                 children(d, element)),
                     EndEv(name_bytes))
    ELSE write_event(w, EmptyEv(name_bytes, start))

\* Document::write_element
write_element(d, w, element) ==
    write_tags(d, w, element, data(d, element).full_name,
               start_tag_attributes(d, element))

\* write_nodes writing a text as it is stored (BytesText::from_escaped).
write_node_text_as_stored(d, w, node) ==
    CASE node.kind = "Element" -> write_element(d, w, node.id)
      [] node.kind = "Text" -> write_event(w, TextEv(node.text))
      [] node.kind = "DocType" ->
            write_event(w, DocTypeEv(escape(<<" ">> \o node.text)))
      [] node.kind = "Comment" -> write_event(w, CommentEv(escape(node.text)))
      [] node.kind = "CData" -> write_event(w, CDataEv(node.text))
      [] node.kind = "PI" -> write_event(w, PIEv(node.text))

\* One turn of the loop of Document::write_nodes. BytesText::new escapes its
\* content (text, doctype and comment); BytesCData::new and BytesPI::new do
\* not.
write_node(d, w, node) ==
    CASE node.kind = "Element" -> write_element(d, w, node.id)
      [] node.kind = "Text" -> write_event(w, TextEv(escape(node.text)))
      [] node.kind = "DocType" ->
            write_event(w, DocTypeEv(escape(<<" ">> \o node.text)))
      [] node.kind = "Comment" -> write_event(w, CommentEv(escape(node.text)))
      [] node.kind = "CData" -> write_event(w, CDataEv(node.text))
      [] node.kind = "PI" -> write_event(w, PIEv(node.text))

\* Document::write_nodes
write_nodes(d, w, nodes) ==
    IF Len(nodes) = 0 THEN w
    ELSE write_nodes(d, write_node(d, w, Head(nodes)), Tail(nodes))

\* StandaloneValue::as_str
as_str(v) == IF v = "Yes" THEN "yes" ELSE "no"

\* Document::write_decl
write_decl(d, w) ==
    write_event(w, DeclEv(d.version, Some("UTF-8"),
                          IF d.standalone.some
                          THEN Some(as_str(d.standalone.v))
                          ELSE None))

\* Document::write_with_opts under WriteOptions::default (write_decl is set):
\* the text written, as the events a reader of it meets.
write_str(d) ==
    write_event(write_nodes(d, write_decl(d, NewWriter), children(d, 0)),
                Eof).out

\* ------------------------------------------------------------- breakdown
\* Element::separate_prefix_name and Element::name: the part after the first
\* colon, or all of it.
name(d, e) ==
    LET full == data(d, e).full_name
        colons == {i \in 1 .. Len(full) : full[i] = ":"}
    IN IF colons = {} THEN full ELSE SubSeq(full, Min(colons) + 1, Len(full))

\* Element::is_root
is_root(d, e) == parent(d, e).some /\ is_container(parent(d, e).v)

\* NodeBreakdown::new and ElementBreakdown::new
RECURSIVE NodeBreakdown(_, _)
NodeBreakdown(d, node) ==
    IF node.kind = "Element"
    THEN [kind |-> "Element",
          name |-> name(d, node.id),
          attributes |-> data(d, node.id).attributes,
          namespace_decls |-> data(d, node.id).namespace_decls,
          children |-> [i \in 1 .. Len(children(d, node.id)) |->
                            NodeBreakdown(d, children(d, node.id)[i])],
          is_root_element |-> is_root(d, node.id)]
    ELSE node

\* Document::breakdown().root_elements
root_elements(d) ==
    [i \in 1 .. Len(children(d, 0)) |-> NodeBreakdown(d, children(d, 0)[i])]

\* --------------------------------------------------------------- the state
VARIABLES
    doc,        \* the Document
    last,       \* the last call made on it: operation, arguments, result
    halted,     \* a call has halted or does not return: the run ends there
    rt          \* the parse, write and parse again in progress, if any

vars == <<doc, last, halted, rt>>

\* The record of a call: the operation, its result ("Ok", an EditXMLError,
\* "panic", or for a query the value it returned) and whether it changed the
\* Document.
Call(op, r) == [op |-> op, res |-> r.res, changed |-> r.doc # doc]

NoCall == [op |-> "Document_new", res |-> "Ok", changed |-> FALSE]

\* Apply the outcome r of a call: the Document it leaves, and the call record.
Apply(op, r) ==
    /\ doc' = r.doc
    /\ last' = Call(op, r)
    /\ halted' = (r.res \in {"panic", "Diverges"})
    /\ UNCHANGED rt

\* Non-element nodes currently held by the Document's child lists.
TextCount(d) ==
    LET n(e) == Cardinality({i \in 1 .. Len(children(d, e)) :
                                children(d, e)[i].kind # "Element"})
        sum[k \in 0 .. Len(d.store)] ==
            IF k = 0 THEN 0 ELSE sum[k - 1] + n(k - 1)
    IN sum[Len(d.store)]

\* The nodes a caller can pass: any handle of this Document, or a fresh text.
ElemNodes(d) == {ElemNode(e) : e \in Handles(d)}
TextNodes == {TextNode(s) : s \in Texts}

\* No text is being parsed.
NoRoundTrip == [round |-> 0]

Init ==
    /\ doc = NewDocument
    /\ last = NoCall
    /\ halted = FALSE
    /\ rt = NoRoundTrip

NewElement ==
    /\ ~halted
    /\ Len(doc.store) < MaxElems
    /\ \E full_name \in Names :
          Apply("Element_new", Element_new(doc, full_name))

PushChild ==
    /\ ~halted
    /\ \E self \in Handles(doc) :
       \E node \in ElemNodes(doc) \cup {n \in TextNodes : TextCount(doc) < MaxText} :
          Apply("push_child", push_child(doc, self, node))

PushTo ==
    /\ ~halted
    /\ \E self \in Handles(doc), p \in Handles(doc) :
          Apply("push_to", push_to(doc, self, p))

\* Any index, one past the valid range included (there the call panics).
InsertChild ==
    /\ ~halted
    /\ \E self \in Handles(doc) :
       \E node \in ElemNodes(doc) \cup {n \in TextNodes : TextCount(doc) < MaxText} :
       \E index \in 0 .. (Len(children(doc, self)) + 1) :
          Apply("insert_child", insert_child(doc, self, index, node))

RemoveChild ==
    /\ ~halted
    /\ \E self \in Handles(doc) :
       \E index \in 0 .. Len(children(doc, self)) :
          Apply("remove_child", remove_child(doc, self, index))

PopChild ==
    /\ ~halted
    /\ \E self \in Handles(doc) :
          Apply("pop_child", pop_child(doc, self))

ClearChildren ==
    /\ ~halted
    /\ \E self \in Handles(doc) :
          Apply("clear_children", clear_children(doc, self))

Detach ==
    /\ ~halted
    /\ \E self \in Handles(doc) :
          Apply("detach", detach(doc, self))

SetTextContent ==
    /\ ~halted
    /\ \E self \in Handles(doc), text \in Texts :
          /\ TextCount(set_text_content(doc, self, text).doc) <= MaxText
          /\ Apply("set_text_content", set_text_content(doc, self, text))

SortChildrenCloned ==
    /\ ~halted
    /\ \E self \in Handles(doc), cmp \in Compares :
          Apply("sort_children_cloned", sort_children_cloned(doc, self, cmp))

\* Element::with_data with namespace declarations, as the parser and the
\* builder call it.
NewElementWithData ==
    /\ ~halted
    /\ Len(doc.store) < MaxElems
    /\ \E full_name \in Names, decls \in DeclMaps :
          Apply("with_data", with_data(doc, full_name, {}, decls))

\* The two-step move of a non-container element that has a parent: detach,
\* then push_child on the new parent; the result is that of the push, or of
\* the detach when that fails.
detach_then_push(d, e, q) ==
    LET r1 == detach(d, e)
    IN IF r1.res # "Ok" THEN r1 ELSE push_child(r1.doc, q, ElemNode(e))

DetachThenPush ==
    /\ ~halted
    /\ \E e \in Handles(doc) \ {0}, q \in Handles(doc) :
          /\ has_parent(doc, e)
          /\ Apply("detach_then_push", detach_then_push(doc, e, q))

Next ==
    \/ NewElement
    \/ PushChild
    \/ PushTo
    \/ InsertChild
    \/ RemoveChild
    \/ PopChild
    \/ ClearChildren
    \/ Detach
    \/ SetTextContent
    \/ SortChildrenCloned
    \/ DetachThenPush

Spec == Init /\ [][Next]_vars

\* The value a namespace lookup hands back, as a call result.
ns_result(v) ==
    [doc |-> doc,
     res |-> IF v = Diverges THEN "Diverges" ELSE IF v.some THEN v.v ELSE "None",
     ret |-> <<>>]

NamespaceForPrefix ==
    /\ ~halted
    /\ \E self \in Handles(doc), prefix \in Prefixes :
          Apply("namespace_for_prefix",
                ns_result(namespace_for_prefix(doc, self, prefix)))

\* Trees of elements that carry namespace declarations.
NextNS ==
    \/ NewElementWithData
    \/ PushTo
    \/ Detach
    \/ NamespaceForPrefix

SpecNS == Init /\ [][NextNS]_vars

\* ------------------------------------------------- parse, write, parse
\* ReadOptions: every combination of the four flags.
ReadOptionsSet ==
    [empty_text_node : BOOLEAN, trim_text : BOOLEAN,
     ignore_whitespace_only : BOOLEAN, require_decl : BOOLEAN,
     normalize_attribute_value_space : {FALSE}]

\* The texts parsed, as the events the tokenizer reports for them: an optional
\* declaration (with a line break or a doctype after it, or a line break
\* before it), then one root element, empty or with a body, with one attribute
\* or namespace declaration or none.
Prologs ==
    {<<>>,
     <<DeclEv("1.0", None, None)>>,
     <<DeclEv("1.0", Some("UTF-8"), None), TextEv(<<"\n">>)>>,
     <<DeclEv("1.1", Some("utf-8"), Some("yes")), DocTypeEv(<<"a">>)>>,
     <<TextEv(<<"\n">>), DeclEv("1.1", None, None)>>}

AttrLists ==
    {<<>>,
     << <<(<<"x">>), <<"v">> >> >>,
     << <<(<<"x">>), <<"&", "l", "t", ";">> >> >>,
     << <<XMLNS \o <<":", "p">>, <<"u">> >> >>,
     << <<XMLNS, <<"u">> >>, <<(<<"x">>), <<"v">> >> >>,
     << <<XMLNS \o <<"x">>, <<"u">> >> >>}

Bodies ==
    {<<>>,
     <<TextEv(<<"t">>)>>,
     <<TextEv(<<" ", "t">>)>>,
     <<TextEv(<<"\n">>)>>,
     <<TextEv(<<"&", "a", "m", "p", ";">>)>>,
     <<TextEv(<<"&", "#", "x", "2", "0", ";">>)>>,
     <<CommentEv(<<"c">>)>>,
     <<CommentEv(<<"<">>)>>,
     <<CommentEv(<<"\\">>)>>,
     <<CDataEv(<<"<">>)>>,
     <<PIEv(<<"p">>)>>,
     <<EmptyEv(<<"b">>, <<>>)>>,
     <<StartEv(<<"p", ":", "b">>, <<>>), TextEv(<<"t">>), EndEv(<<"p", ":", "b">>)>>,
     <<TextEv(<<"t">>), EmptyEv(<<"b">>, <<>>)>>,
     <<DeclEv("1.1", None, None)>>,
     <<StartEv(<<"b">>, <<>>), EndEv(<<"b">>), EmptyEv(<<"c">>, <<>>)>>}

Roots ==
    {<<EmptyEv(<<"a">>, at)>> : at \in AttrLists}
    \cup {<<StartEv(<<"a">>, at)>> \o b \o <<EndEv(<<"a">>)>> :
              at \in AttrLists, b \in Bodies}
    \cup {<<StartEv(<<"a">>, <<>>)>>}

Inputs == {pr \o root : pr \in Prologs, root \in Roots}

\* DocumentParser::parse_reader: a new Document, the container on the stack.
\* `first` is the Document the text was written from (a new one in round 1) and
\* `expected` its breakdown.
StartParse(opts, input, round, first) ==
    [opts |-> opts, input |-> input, element_stack |-> <<0>>, res |-> "going",
     pc |-> "parse_start", round |-> round, first |-> first,
     expected |-> root_elements(first)]

InitRT ==
    /\ doc = NewDocument
    /\ last = NoCall
    /\ halted = FALSE
    /\ rt \in {StartParse(opts, input, 1, NewDocument) :
                  opts \in ReadOptionsSet, input \in Inputs}

\* The parser as the state holds it.
Parser == [doc |-> doc, element_stack |-> rt.element_stack, res |-> rt.res]

\* The outcome r of a step of the parser.
ParserStep(op, r) ==
    /\ doc' = r.p.doc
    /\ rt' = [rt EXCEPT !.input = r.input,
                        !.element_stack = r.p.element_stack,
                        !.res = r.p.res,
                        !.pc = IF r.p.res = "going" THEN "parse_content"
                               ELSE "done"]
    /\ last' = [op |-> op, res |-> r.p.res, changed |-> r.p.doc # doc]
    /\ UNCHANGED halted

ParseStart ==
    /\ rt.round \in {1, 2}
    /\ rt.pc = "parse_start"
    /\ ParserStep("parse_start", parse_start(Parser, rt.opts, rt.input))

ParseContent ==
    /\ rt.round \in {1, 2}
    /\ rt.pc = "parse_content"
    /\ ParserStep("parse_content", parse_content(Parser, rt.opts, rt.input))

\* write_then_read_again: the Document of a successful parse is written and
\* the text parsed with the same options.
WriteThenReadAgain ==
    /\ rt.round = 1
    /\ rt.pc = "done"
    /\ rt.res = "Ok"
    /\ doc' = NewDocument
    /\ rt' = StartParse(rt.opts, write_str(doc), 2, doc)
    /\ last' = [op |-> "write_str", res |-> "Ok", changed |-> FALSE]
    /\ UNCHANGED halted

NextRT ==
    \/ ParseStart
    \/ ParseContent
    \/ WriteThenReadAgain

SpecRT == InitRT /\ [][NextRT]_vars

\* ------------------------------------------------- the tags of a parse
\* A parse that keeps the text it was given.
InitTags ==
    /\ doc = NewDocument
    /\ last = NoCall
    /\ halted = FALSE
    /\ rt \in {StartParse(opts, input, 1, NewDocument) @@ [text |-> input] :
                  opts \in ReadOptionsSet, input \in Inputs}

NextTags ==
    \/ ParseStart
    \/ ParseContent

SpecTags == InitTags /\ [][NextTags]_vars

\* --------------------------------------------------- attribute values
\* The strings made of at most n of the pieces.
RECURSIVE Concats(_, _)
Concats(pieces, n) ==
    IF n = 0 THEN {<<>>}
    ELSE Concats(pieces, n - 1)
         \cup {s \o p : s \in Concats(pieces, n - 1), p \in pieces}

\* Raw attribute values: whitespace of every kind, a letter, and the character
\* reference of the carriage return.
RawPieces ==
    {<<" ">>, <<"\t">>, <<"\n">>, <<"\r">>, <<"a">>,
     <<"&", "#", "x", "D", ";">>}
RawValues == Concats(RawPieces, MaxPieces)

\* ReadOptions::relaxed without ignore_whitespace_only, with and without the
\* normalisation of attribute values.
AttrOptions ==
    [empty_text_node : {TRUE}, trim_text : {TRUE},
     ignore_whitespace_only : {FALSE}, require_decl : {FALSE},
     normalize_attribute_value_space : BOOLEAN]

\* The text <a x="raw"/> for every raw value.
InitAttr ==
    /\ doc = NewDocument
    /\ last = NoCall
    /\ halted = FALSE
    /\ rt \in {StartParse(opts,
                          <<EmptyEv(<<"a">>, << <<(<<"x">>), raw>> >>)>>,
                          1, NewDocument) :
                  opts \in AttrOptions, raw \in RawValues}

SpecAttr == InitAttr /\ [][NextRT]_vars

\* ---------------------------------------------------------- declarations
\* The values of the standalone pseudo-attribute of a declaration: the two
\* the XML grammar knows, the same in other cases, and two that are neither.
StandaloneValues == {"yes", "no", "Yes", "NO", "maybe", ""}

\* The text <?xml version=".." encoding=".." standalone=".."?><a/> for every
\* version, with and without the encoding label, and every standalone value
\* or none.
DeclInputs ==
    {<<DeclEv(version, encoding, standalone), EmptyEv(<<"a">>, <<>>)>> :
        version \in {"1.0", "1.1"},
        encoding \in {None, Some("UTF-8")},
        standalone \in {None} \cup {Some(v) : v \in StandaloneValues}}

InitDecl ==
    /\ doc = NewDocument
    /\ last = NoCall
    /\ halted = FALSE
    /\ rt \in {StartParse(opts, input, 1, NewDocument) :
                  opts \in ReadOptionsSet, input \in DeclInputs}

SpecDecl == InitDecl /\ [][NextRT]_vars

\* ----------------------------------------------- the decoding reader
\* The capacity of DecodeReader::undecoded (4096 bytes in the code) and the
\* count of left-over bytes up to which fill_buf_decode reads more (32 in the
\* code), scaled down together; the decoded buffer (12288 bytes, three times
\* the other) always has room for what one decode call produces.
UndecodedLen == 6
RemainingLen == 1
\* The bytes after the declaration in a source.
MaxBody == 5

\* A byte of a source: its position and its value.
Byte(n, v) == [n |-> n, v |-> v]
\* A character as the tokenizer gets it: the source bytes it was made from and
\* its value.
Char(src, ch) == [src |-> src, ch |-> ch]

LT == 60
GT == 62
QM == 63
REPLACEMENT == 65533

\* Encoding::for_label, for the labels of the inputs.
for_label(label) ==
    CASE label = "UTF-8" -> Some("UTF_8")
      [] label = "UTF-16" -> Some("UTF_16LE")
      [] label = "UTF-16LE" -> Some("UTF_16LE")
      [] label = "UTF-16BE" -> Some("UTF_16BE")
      [] label = "windows-1252" -> Some("windows-1252")
      [] OTHER -> None

\* Encoding::new_decoder_without_bom_handling: a decoder holds the bytes of a
\* character it has not seen the end of.
new_decoder_without_bom_handling(encoding) ==
    [encoding |-> encoding, pending |-> <<>>]

\* The bytes one character takes in an encoding, for the characters of the
\* inputs (all of them ASCII).
Width(encoding) == IF encoding \in {"UTF_16LE", "UTF_16BE"} THEN 2 ELSE 1

\* The character a decoder makes of the bytes of one unit.
decode_unit(encoding, unit) ==
    Char(unit,
         CASE encoding = "UTF_16LE" ->
                  IF unit[2].v = 0 THEN unit[1].v ELSE REPLACEMENT
           [] encoding = "UTF_16BE" ->
                  IF unit[1].v = 0 THEN unit[2].v ELSE REPLACEMENT
           [] OTHER -> IF unit[1].v < 128 THEN unit[1].v ELSE REPLACEMENT)

\* The characters of the complete units of the bytes.
RECURSIVE decode_units(_, _)
decode_units(encoding, bytes) ==
    IF Len(bytes) < Width(encoding) THEN <<>>
    ELSE <<decode_unit(encoding, SubSeq(bytes, 1, Width(encoding)))>>
         \o decode_units(encoding,
                         SubSeq(bytes, Width(encoding) + 1, Len(bytes)))

\* The bytes after the last complete unit.
decode_rest(encoding, bytes) ==
    SubSeq(bytes, Len(bytes) - (Len(bytes) % Width(encoding)) + 1, Len(bytes))

\* Decoder::decode_to_utf8: every byte of src is read; the bytes of an
\* unfinished character stay in the decoder, or become one replacement
\* character when src is the last input.
decode_to_utf8(decoder, src, last_) ==
    [decoder |->
         [decoder EXCEPT !.pending =
             IF last_ THEN <<>>
             ELSE decode_rest(decoder.encoding, decoder.pending \o src)],
     read |-> Len(src),
     out |-> decode_units(decoder.encoding, decoder.pending \o src)
             \o (IF /\ last_
                    /\ decode_rest(decoder.encoding, decoder.pending \o src)
                           # <<>>
                 THEN <<Char(decode_rest(decoder.encoding,
                                         decoder.pending \o src),
                             REPLACEMENT)>>
                 ELSE <<>>)]

\* DecodeReader::new
DecodeReader_new(reader, decoder) ==
    [decoder |-> decoder, inner |-> reader,
     undecoded |-> <<>>, undecoded_pos |-> 0, undecoded_cap |-> 0,
     decoded |-> <<>>, decoded_pos |-> 0, decoded_cap |-> 0,
     done |-> FALSE]

\* DecodeReader::set_encoding
set_encoding(r, encoding) ==
    [r EXCEPT !.decoder = IF encoding.some
                          THEN Some(new_decoder_without_bom_handling(encoding.v))
                          ELSE None,
              !.done = FALSE]

\* A byte that is the last one of what the source hands out in one read.
CutByte(n, v) == [n |-> n, v |-> v, cut |-> TRUE]

\* The bytes a source has ready for one read: all that are left for a slice
\* or a file, the bytes up to the end of the chunk for a source that hands
\* its bytes out in chunks.
RECURSIVE ready(_, _)
ready(inner, i) ==
    IF i >= Len(inner) THEN Len(inner)
    ELSE IF "cut" \in DOMAIN inner[i] THEN i
    ELSE ready(inner, i + 1)

\* The bytes one Read::read call returns.
read_len(inner, room) ==
    IF room < ready(inner, 1) THEN room ELSE ready(inner, 1)

\* Read::read of the inner reader: as many bytes as the buffer given has room
\* for, or the bytes the source has ready.
inner_read(inner, room) ==
    [bytes |-> SubSeq(inner, 1, read_len(inner, room)),
     inner |-> SubSeq(inner, read_len(inner, room) + 1, Len(inner))]

\* The slice buf[pos..cap].
Slice(buf, pos, cap) == SubSeq(buf, pos + 1, cap)

\* fill_buf_decode, "Fill undecoded buffer": the bytes left move to the start
\* and the inner reader fills the rest.
refill_with(r, remaining, rd) ==
    [r EXCEPT !.undecoded =
                  Slice(r.undecoded, r.undecoded_pos, r.undecoded_cap)
                  \o rd.bytes,
              !.inner = rd.inner,
              !.done = Len(rd.bytes) = 0,
              !.undecoded_pos = 0,
              !.undecoded_cap = remaining + Len(rd.bytes)]

refill(r, remaining) ==
    IF remaining <= RemainingLen
    THEN refill_with(r, remaining,
                     inner_read(r.inner, UndecodedLen - remaining))
    ELSE r

\* fill_buf_decode, "Fill decoded buffer".
decoded_with(r, dec) ==
    [r EXCEPT !.decoder = Some(dec.decoder),
              !.undecoded_pos = r.undecoded_pos + dec.read,
              !.decoded = dec.out,
              !.decoded_cap = Len(dec.out),
              !.decoded_pos = 0]

fill_decoded(r) ==
    decoded_with(r, decode_to_utf8(r.decoder.v,
                                   Slice(r.undecoded, r.undecoded_pos,
                                         r.undecoded_cap),
                                   r.done))

\* The reader and the slice fill_buf returns, as characters.
available_decoded(r) ==
    [r |-> r, buf |-> Slice(r.decoded, r.decoded_pos, r.decoded_cap)]

\* DecodeReader::fill_buf_decode
fill_buf_decode(r) ==
    IF r.decoded_pos >= r.decoded_cap
    THEN IF r.done THEN [r |-> r, buf |-> <<>>]
         ELSE available_decoded(
                  fill_decoded(refill(r, r.undecoded_cap - r.undecoded_pos)))
    ELSE available_decoded(r)

\* The undecoded bytes as the tokenizer gets them.
available_undecoded(r) ==
    [r |-> r,
     buf |-> [i \in 1 .. (r.undecoded_cap - r.undecoded_pos) |->
                 Char(<<r.undecoded[r.undecoded_pos + i]>>,
                      r.undecoded[r.undecoded_pos + i].v)]]

read_undecoded(r, rd) ==
    [r EXCEPT !.undecoded = rd.bytes,
              !.inner = rd.inner,
              !.undecoded_cap = Len(rd.bytes),
              !.undecoded_pos = 0]

\* DecodeReader::fill_buf_without_decode
fill_buf_without_decode(r) ==
    IF r.undecoded_pos >= r.undecoded_cap
    THEN available_undecoded(read_undecoded(r, inner_read(r.inner, UndecodedLen)))
    ELSE available_undecoded(r)

\* BufRead::fill_buf for DecodeReader
fill_buf(r) ==
    IF r.decoder.some THEN fill_buf_decode(r) ELSE fill_buf_without_decode(r)

\* BufRead::consume for DecodeReader
consume(r, amt) ==
    IF r.decoder.some
    THEN [r EXCEPT !.decoded_pos =
             IF r.decoded_pos + amt < r.decoded_cap
             THEN r.decoded_pos + amt ELSE r.decoded_cap]
    ELSE [r EXCEPT !.undecoded_pos =
             IF r.undecoded_pos + amt < r.undecoded_cap
             THEN r.undecoded_pos + amt ELSE r.undecoded_cap]

\* The values of the first n bytes of a slice, or of all it has.
Values(buf, n) ==
    [i \in 1 .. (IF Len(buf) < n THEN Len(buf) ELSE n) |-> buf[i].ch]

\* The match with the marks read as characters: FF FE is taken for the mark of
\* UTF-16BE and FE FF for that of UTF-16LE.
sniffed_marks_swapped(f) ==
    IF Values(f.buf, 2) = <<LT, QM>>
    THEN [r |-> f.r, encoding |-> None]
    ELSE IF Values(f.buf, 2) = <<255, 254>>
    THEN [r |-> consume(f.r, 2), encoding |-> Some("UTF_16BE")]
    ELSE IF Values(f.buf, 2) = <<254, 255>>
    THEN [r |-> consume(f.r, 2), encoding |-> Some("UTF_16LE")]
    ELSE IF Values(f.buf, 3) = <<239, 187, 191>>
    THEN [r |-> consume(f.r, 3), encoding |-> None]
    ELSE IF Values(f.buf, 4) = <<0, LT, 0, QM>>
    THEN [r |-> f.r, encoding |-> Some("UTF_16BE")]
    ELSE IF Values(f.buf, 4) = <<LT, 0, QM, 0>>
    THEN [r |-> f.r, encoding |-> Some("UTF_16LE")]
    ELSE [r |-> f.r, encoding |-> None]

\* The match of sniff_encoding on the bytes fill_buf returned.
sniffed(f) ==
    IF Values(f.buf, 2) = <<LT, QM>>
    THEN [r |-> f.r, encoding |-> None]
    ELSE IF Values(f.buf, 2) = <<254, 255>>
    THEN [r |-> consume(f.r, 2), encoding |-> Some("UTF_16BE")]
    ELSE IF Values(f.buf, 2) = <<255, 254>>
    THEN [r |-> consume(f.r, 2), encoding |-> Some("UTF_16LE")]
    ELSE IF Values(f.buf, 3) = <<239, 187, 191>>
    THEN [r |-> consume(f.r, 3), encoding |-> None]
    ELSE IF Values(f.buf, 4) = <<0, LT, 0, QM>>
    THEN [r |-> f.r, encoding |-> Some("UTF_16BE")]
    ELSE IF Values(f.buf, 4) = <<LT, 0, QM, 0>>
    THEN [r |-> f.r, encoding |-> Some("UTF_16LE")]
    ELSE [r |-> f.r, encoding |-> None]

\* DocumentParser::sniff_encoding
sniff_encoding(r) == sniffed(fill_buf(r))

\* The bytes of a character of the inputs in an encoding of the text.
encode_char(text_encoding, ch) ==
    CASE text_encoding = "UTF_16LE" -> <<ch, 0>>
      [] text_encoding = "UTF_16BE" -> <<0, ch>>
      [] OTHER -> <<ch>>

RECURSIVE encode_chars(_, _)
encode_chars(text_encoding, chars) ==
    IF chars = <<>> THEN <<>>
    ELSE encode_char(text_encoding, Head(chars))
         \o encode_chars(text_encoding, Tail(chars))

\* The byte order mark of an encoding.
BOM(text_encoding) ==
    CASE text_encoding = "UTF_16LE" -> <<255, 254>>
      [] text_encoding = "UTF_16BE" -> <<254, 255>>
      [] OTHER -> <<239, 187, 191>>

\* The declaration as the tokenizer looks for it: its opening <?, and the >
\* that ends it. The encoding label it names is kept beside the bytes.
DeclChars == <<LT, QM, GT>>

Numbered(values) == [i \in 1 .. Len(values) |-> Byte(i, values[i])]

\* A source: a mark or none, the declaration, and a body of n characters;
\* after_decl counts the bytes up to the end of the declaration.
Source(text_encoding, bom, n) ==
    [bytes |->
         Numbered((IF bom THEN BOM(text_encoding) ELSE <<>>)
                  \o encode_chars(text_encoding,
                                  DeclChars \o [i \in 1 .. n |-> 97])),
     after_decl |->
         (IF bom THEN Len(BOM(text_encoding)) ELSE 0)
         + Len(encode_chars(text_encoding, DeclChars))]

Sources ==
    {Source(text_encoding, bom, n) :
        text_encoding \in {"UTF_8", "UTF_16LE", "UTF_16BE"},
        bom \in BOOLEAN, n \in 0 .. MaxBody}

\* The encoding labels a declaration of the inputs names, and those of
\* ReadOptions::encoding.
DeclaredLabels ==
    {None, Some("UTF-8"), Some("UTF-16"), Some("UTF-16BE"),
     Some("windows-1252")}
OptionLabels == {None, Some("UTF-8"), Some("windows-1252")}

\* parse_start before its first statement: the source, ReadOptions::encoding
\* and the label of the declaration; nothing is read yet.
StartDecode(source, opts_encoding, declared) ==
    [round |-> 0, pc |-> "sniff", source |-> source,
     opts_encoding |-> opts_encoding, declared |-> declared,
     reader |-> DecodeReader_new(source.bytes, None),
     init_encoding |-> None, encoding |-> None,
     event |-> <<>>, swapped |-> "no", delivered |-> <<>>]

InitDec ==
    /\ doc = NewDocument
    /\ last = NoCall
    /\ halted = FALSE
    /\ rt \in {StartDecode(source, opts_encoding, declared) :
                  source \in Sources, opts_encoding \in OptionLabels,
                  declared \in DeclaredLabels}

\* parse_start: the encoding sniffed or the one of the options, installed.
sniffed_or_forced(s, opts_encoding) ==
    [r |-> set_encoding(s.r, IF opts_encoding.some
                             THEN for_label(opts_encoding.v)
                             ELSE s.encoding),
     encoding |-> IF opts_encoding.some THEN for_label(opts_encoding.v)
                  ELSE s.encoding]

Sniff ==
    /\ rt.round = 0
    /\ rt.pc = "sniff"
    /\ rt' = [rt EXCEPT
                 !.reader = sniffed_or_forced(sniff_encoding(rt.reader),
                                              rt.opts_encoding).r,
                 !.init_encoding =
                     sniffed_or_forced(sniff_encoding(rt.reader),
                                       rt.opts_encoding).encoding,
                 !.pc = "first_event"]
    /\ last' = [op |-> "sniff_encoding", res |-> "Ok", changed |-> FALSE]
    /\ UNCHANGED <<doc, halted>>

\* The index of the first > of a slice, or 0.
FirstGT(buf) ==
    IF \E i \in 1 .. Len(buf) : buf[i].ch = GT
    THEN Min({i \in 1 .. Len(buf) : buf[i].ch = GT})
    ELSE 0

\* The source positions of the characters of a slice.
RECURSIVE Positions(_)
Positions(buf) ==
    IF buf = <<>> THEN <<>>
    ELSE [i \in 1 .. Len(Head(buf).src) |-> Head(buf).src[i].n]
         \o Positions(Tail(buf))

\* Reader::read_event_into for the first event: the tokenizer takes what
\* fill_buf returns up to the first > and consumes as much; the end of the
\* input, or an event that is not the declaration, ends the step here.
first_event_read(f, k) ==
    IF f.buf = <<>> THEN [rt EXCEPT !.reader = f.r, !.pc = "done"]
    ELSE IF k = 0
    THEN [rt EXCEPT !.reader = consume(f.r, Len(f.buf)),
                    !.event = rt.event \o Values(f.buf, Len(f.buf))]
    ELSE [rt EXCEPT !.reader = consume(f.r, k),
                    !.event = rt.event \o Values(f.buf, k),
                    !.pc = IF rt.event \o Values(f.buf, k) = DeclChars
                           THEN "handle_decl" ELSE "done"]

ReadFirstEvent ==
    /\ rt.round = 0
    /\ rt.pc = "first_event"
    /\ rt' = first_event_read(fill_buf(rt.reader),
                              FirstGT(fill_buf(rt.reader).buf))
    /\ last' = [op |-> "read_event_into", res |-> "Ok", changed |-> FALSE]
    /\ UNCHANGED <<doc, halted>>

\* handle_decl: the encoding of the label, none for UTF-8 or without a label.
declared_encoding(declared) ==
    IF declared.some /\ for_label(declared.v) # Some("UTF_8")
    THEN for_label(declared.v)
    ELSE None

\* The test of parse_start for the swap of the decoder.
must_swap(encoding, init_encoding) ==
    /\ encoding # init_encoding
    /\ ~(encoding = Some("UTF_16LE") /\ init_encoding = Some("UTF_16BE"))

\* Which kind of swap it is.
swap_kind(encoding, init_encoding) ==
    IF ~must_swap(encoding, init_encoding) THEN "no"
    ELSE IF ~init_encoding.some THEN "none_to_some"
    ELSE IF encoding.some THEN "some_to_some"
    ELSE "some_to_none"

\* parse_start after the declaration: handle_decl, and the decoder replaced
\* when the declaration names another encoding than the initial one.
HandleDecl ==
    /\ rt.round = 0
    /\ rt.pc = "handle_decl"
    /\ rt' = [rt EXCEPT
                 !.encoding = declared_encoding(rt.declared),
                 !.reader =
                     IF must_swap(declared_encoding(rt.declared),
                                  rt.init_encoding)
                     THEN set_encoding(rt.reader,
                                       declared_encoding(rt.declared))
                     ELSE rt.reader,
                 !.swapped = swap_kind(declared_encoding(rt.declared),
                                       rt.init_encoding),
                 !.pc = "content"]
    /\ last' = [op |-> "handle_decl", res |-> "Ok", changed |-> FALSE]
    /\ UNCHANGED <<doc, halted>>

\* parse_content as the decoding reader sees it: the tokenizer takes what
\* fill_buf returns and consumes the bytes of the event it found in it; an
\* empty slice is the end of the input.
ReadContent ==
    /\ rt.round = 0
    /\ rt.pc = "content"
    /\ \/ /\ fill_buf(rt.reader).buf = <<>>
          /\ rt' = [rt EXCEPT !.reader = fill_buf(rt.reader).r,
                              !.pc = "done"]
       \/ \E amt \in 1 .. Len(fill_buf(rt.reader).buf) :
              rt' = [rt EXCEPT
                        !.reader = consume(fill_buf(rt.reader).r, amt),
                        !.delivered =
                            rt.delivered
                            \o Positions(SubSeq(fill_buf(rt.reader).buf,
                                                1, amt))]
    /\ last' = [op |-> "read_event_into", res |-> "Ok", changed |-> FALSE]
    /\ UNCHANGED <<doc, halted>>

NextDec ==
    \/ Sniff
    \/ ReadFirstEvent
    \/ HandleDecl
    \/ ReadContent

SpecDec == InitDec /\ [][NextDec]_vars

\* ------------------------------------------- a source that reads in chunks
\* A reader whose read calls return fewer bytes than asked for (a pipe, a
\* socket, a Read adapter): the bytes of a text in one encoding, cut into
\* reads, under a decoder installed from the start.
MaxChunked == 4

ChunkEncodings == {"UTF_16LE", "UTF_16BE", "UTF_8"}

\* The characters a, b, c, .. of a text of n characters.
Letters(n) == [i \in 1 .. n |-> 96 + i]

\* The bytes of a source whose reads end after the positions of cuts.
Chunked(values, cuts) ==
    [i \in 1 .. Len(values) |->
        IF i \in cuts THEN CutByte(i, values[i]) ELSE Byte(i, values[i])]

ChunkedSources(text_encoding) ==
    UNION {{Chunked(encode_chars(text_encoding, Letters(n)), cuts) :
                cuts \in SUBSET (1 .. Len(encode_chars(text_encoding,
                                                       Letters(n))) - 1)} :
           n \in 0 .. MaxChunked}

StartChunked(text_encoding, source) ==
    [round |-> 0, pc |-> "content", source |-> source,
     encoding |-> text_encoding,
     reader |-> set_encoding(DecodeReader_new(source, None),
                             Some(text_encoding)),
     delivered |-> <<>>, chars |-> <<>>]

InitChunk ==
    /\ doc = NewDocument
    /\ last = NoCall
    /\ halted = FALSE
    /\ rt \in UNION {{StartChunked(text_encoding, source) :
                         source \in ChunkedSources(text_encoding)} :
                     text_encoding \in ChunkEncodings}

\* The values of the characters of a slice.
Chars(buf) == [i \in 1 .. Len(buf) |-> buf[i].ch]

\* The tokenizer over the decoding reader: it takes what fill_buf returns
\* and consumes some of it; an empty slice is the end of the input.
ReadChunk ==
    /\ rt.round = 0
    /\ rt.pc = "content"
    /\ \/ /\ fill_buf(rt.reader).buf = <<>>
          /\ rt' = [rt EXCEPT !.reader = fill_buf(rt.reader).r,
                              !.pc = "done"]
       \/ \E amt \in 1 .. Len(fill_buf(rt.reader).buf) :
              rt' = [rt EXCEPT
                        !.reader = consume(fill_buf(rt.reader).r, amt),
                        !.delivered =
                            rt.delivered
                            \o Positions(SubSeq(fill_buf(rt.reader).buf,
                                                1, amt)),
                        !.chars =
                            rt.chars
                            \o Chars(SubSeq(fill_buf(rt.reader).buf, 1, amt))]
    /\ last' = [op |-> "read_event_into", res |-> "Ok", changed |-> FALSE]
    /\ UNCHANGED <<doc, halted>>

NextChunk == ReadChunk

SpecChunk == InitChunk /\ [][NextChunk]_vars

\* ------------------------------------------------- build, write, parse
\* ElementBuilder, as Element::build(..).attribute(..).namespace_decl(..)
\* .text_content(..) leaves it.
ElementBuilder(full_name, attributes, namespace_decls, text) ==
    [full_name |-> full_name, attributes |-> attributes,
     namespace_decls |-> namespace_decls, text_content |-> text]

\* ElementBuilder::finish
finish_made(made, b) ==
    IF b.text_content.some
    THEN [push_child(made.doc, made.ret[1].id, TextNode(b.text_content.v))
             EXCEPT !.ret = made.ret]
    ELSE made

finish(d, b) ==
    finish_made(with_data(d, b.full_name, b.attributes, b.namespace_decls), b)

\* ElementBuilder::push_to
builder_push_to(d, b, parent_) ==
    push_to(finish(d, b).doc, finish(d, b).ret[1].id, parent_)

\* Document::push_root_node
push_root_node(d, node) == push_child(d, 0, node)

\* The payloads of comments and doctypes counted as text.
RECURSIVE build_text_content_every_kind(_, _, _)
build_text_content_every_kind(d, nodes, buf) ==
    IF Len(nodes) = 0 THEN buf
    ELSE build_text_content_every_kind(
             d, Tail(nodes),
             IF Head(nodes).kind = "Element"
             THEN build_text_content_every_kind(
                      d, children(d, Head(nodes).id), buf)
             ELSE buf \o Head(nodes).text)

\* Node::build_text_content and Element::text_content: the text, CDATA and
\* PI payloads under the element, in order.
RECURSIVE build_text_content(_, _, _)
build_text_content(d, nodes, buf) ==
    IF Len(nodes) = 0 THEN buf
    ELSE build_text_content(
             d, Tail(nodes),
             IF Head(nodes).kind = "Element"
             THEN build_text_content(d, children(d, Head(nodes).id), buf)
             ELSE IF Head(nodes).kind \in {"Text", "CData", "PI"}
             THEN buf \o Head(nodes).text
             ELSE buf)

text_content(d, e) == build_text_content(d, children(d, e), <<>>)

\* Payloads: the five characters the writer may escape, a letter and a space.
PayloadPieces ==
    {<<"<">>, <<">">>, <<"&">>, <<"\"">>, <<"'">>, <<"t">>, <<" ">>}
Payloads == Concats(PayloadPieces, MaxPieces)

\* The text whose written form is &lt;Text&amp;&apos;&gt;.
TestText == <<"<", "T", "e", "x", "t", "&", "'", ">">>

\* The builders of a root element a with one attribute, one namespace
\* declaration or a text.
Builders ==
    {ElementBuilder(<<"a">>, {<<(<<"x">>), v>>}, {}, None) : v \in Payloads}
    \cup {ElementBuilder(<<"a">>, {}, {<<(<<"p">>), v>>}, None) : v \in Payloads}
    \cup {ElementBuilder(<<"a">>, {}, {}, Some(v)) :
              v \in Payloads \cup {TestText}}

\* The root nodes that are not elements or text.
RootNodes ==
    UNION {{CommentNode(v), CDataNode(v), PINode(v), DocTypeNode(v)} :
              v \in Payloads}

\* The options the written text is parsed with.
WROptions ==
    [empty_text_node : BOOLEAN, trim_text : BOOLEAN,
     ignore_whitespace_only : {FALSE}, require_decl : {TRUE},
     normalize_attribute_value_space : {FALSE}]

BuildPushTo ==
    /\ rt.round = 0
    /\ Len(children(doc, 0)) = 0
    /\ \E b \in Builders : Apply("build_push_to", builder_push_to(doc, b, 0))

PushRootNode ==
    /\ rt.round = 0
    /\ Len(children(doc, 0)) = 0
    /\ \E node \in RootNodes : Apply("push_root_node", push_root_node(doc, node))

\* Document::write_str, and the text handed to the parser.
WriteStr ==
    /\ rt.round = 0
    /\ Len(children(doc, 0)) > 0
    /\ \E opts \in WROptions :
          rt' = StartParse(opts, write_str(doc), 2, doc)
    /\ doc' = NewDocument
    /\ last' = [op |-> "write_str", res |-> "Ok", changed |-> FALSE]
    /\ UNCHANGED halted

NextWR ==
    \/ BuildPushTo
    \/ PushRootNode
    \/ WriteStr
    \/ ParseStart
    \/ ParseContent

SpecWR == Init /\ [][NextWR]_vars

\* ------------------------------------------------------- text content
\* The nodes other than elements and texts held by the child lists of a
\* Document of this part.
MaxContent == 2

\* One node of every kind that is not an element, each with its own payload.
ContentNodes ==
    {TextNode(<<"t">>), CDataNode(<<"c", "d">>), PINode(<<"p">>),
     CommentNode(<<"m">>), DocTypeNode(<<"y">>)}

\* The elements reached from e through child lists in at most k steps.
RECURSIVE Reached(_, _, _)
Reached(d, S, k) ==
    IF k = 0 THEN S
    ELSE Reached(d,
                 S \cup {n.id : n \in
                            {c \in UNION {{children(d, x)[i] :
                                              i \in 1 .. Len(children(d, x))} :
                                          x \in S} : c.kind = "Element"}},
                 k - 1)

\* The recursion of build_text_content under e never ends: an element under
\* e is its own descendant.
NeverEnds(d, e) ==
    \E x \in Reached(d, {e}, Len(d.store)) :
        \E i \in 1 .. Len(children(d, x)) :
            /\ children(d, x)[i].kind = "Element"
            /\ x \in Reached(d, {children(d, x)[i].id}, Len(d.store))

\* Node::text_content
Node_text_content(d, node) == build_text_content(d, <<node>>, <<>>)

\* A Document with two elements made by Element::new and not yet attached.
InitTC ==
    /\ doc = Element_new(Element_new(NewDocument, "a").doc, "a").doc
    /\ last = NoCall
    /\ halted = FALSE
    /\ rt = NoRoundTrip

\* push_child with an element that has no parent or a node of ContentNodes,
\* a doctype for the container only.
PushNode ==
    /\ ~halted
    /\ \E self \in Handles(doc) :
       \E node \in {ElemNode(x) : x \in {y \in Handles(doc) \ {0} :
                                             ~has_parent(doc, y)}}
                   \cup {n \in ContentNodes :
                            /\ TextCount(doc) < MaxContent
                            /\ n.kind = "DocType" => is_container(self)} :
          Apply("push_child", push_child(doc, self, node))

\* Element::text_content of any element; the call does not return when the
\* recursion never ends.
TextContent ==
    /\ ~halted
    /\ \E self \in Handles(doc) :
          /\ last' = [op |-> "text_content",
                      res |-> IF NeverEnds(doc, self) THEN "Diverges"
                              ELSE text_content(doc, self),
                      changed |-> FALSE, self |-> self]
          /\ halted' = NeverEnds(doc, self)
    /\ UNCHANGED <<doc, rt>>

\* Node::text_content of a node of a child list that is not an element.
NodeTextContent ==
    /\ ~halted
    /\ \E e \in Handles(doc) :
       \E i \in 1 .. Len(children(doc, e)) :
          /\ children(doc, e)[i].kind # "Element"
          /\ last' = [op |-> "Node_text_content",
                      res |-> Node_text_content(doc, children(doc, e)[i]),
                      changed |-> FALSE, node |-> children(doc, e)[i]]
    /\ UNCHANGED <<doc, halted, rt>>

NextTC ==
    \/ PushNode
    \/ TextContent
    \/ NodeTextContent

SpecTC == InitTC /\ [][NextTC]_vars

\* ------------------------------------------------------ sniffing alone
\* The length of the inputs sniffed.
MaxLead == 4

\* The byte values the patterns of sniff_encoding are made of, and one more.
LeadValues == {0, LT, QM, 254, 255, 239, 187, 191, 97}

\* The inputs of at most n bytes.
RECURSIVE Leads(_)
Leads(n) ==
    IF n = 0 THEN {<<>>}
    ELSE Leads(n - 1)
         \cup {Append(s, v) : s \in {t \in Leads(n - 1) : Len(t) = n - 1},
                              v \in LeadValues}

\* parse_start before sniff_encoding: a reader of the input with no decoder.
InitSniff ==
    /\ doc = NewDocument
    /\ last = NoCall
    /\ halted = FALSE
    /\ rt \in {[round |-> 0, pc |-> "sniff", lead |-> lead,
                reader |-> DecodeReader_new(Numbered(lead), None),
                encoding |-> None] : lead \in Leads(MaxLead)}

\* sniff_encoding on the reader: the encoding returned and the reader left.
SniffEncoding ==
    /\ rt.round = 0
    /\ rt.pc = "sniff"
    /\ rt' = [rt EXCEPT !.reader = sniff_encoding(rt.reader).r,
                        !.encoding = sniff_encoding(rt.reader).encoding,
                        !.pc = "sniffed"]
    /\ last' = [op |-> "sniff_encoding", res |-> "Ok", changed |-> FALSE]
    /\ UNCHANGED <<doc, halted>>

NextSniff == SniffEncoding

SpecSniff == InitSniff /\ [][NextSniff]_vars

\* --------------------------------------------- what a tree mutation touches
\* Two detached elements beside the container.
InitFrame ==
    /\ doc = Element_new(Element_new(NewDocument, "a").doc, "a").doc
    /\ last = NoCall
    /\ halted = FALSE
    /\ rt = NoRoundTrip

\* The outcome r of a tree-mutation call of self with the node: the Document
\* it leaves and the call record with the receiver and the node.
Mutated(op, r, self, node) ==
    /\ doc' = r.doc
    /\ last' = [op |-> op, res |-> r.res, changed |-> r.doc # doc,
                self |-> self, node |-> node]
    /\ halted' = (r.res = "panic")
    /\ UNCHANGED rt

PushChildOf ==
    /\ ~halted
    /\ \E self \in Handles(doc) :
       \E node \in ElemNodes(doc) \cup {n \in TextNodes : TextCount(doc) < MaxText} :
          Mutated("push_child", push_child(doc, self, node), self, <<node>>)

InsertChildOf ==
    /\ ~halted
    /\ \E self \in Handles(doc) :
       \E node \in ElemNodes(doc) \cup {n \in TextNodes : TextCount(doc) < MaxText} :
       \E index \in 0 .. (Len(children(doc, self)) + 1) :
          Mutated("insert_child", insert_child(doc, self, index, node), self,
                  <<node>>)

RemoveChildOf ==
    /\ ~halted
    /\ \E self \in Handles(doc) :
       \E index \in 0 .. Len(children(doc, self)) :
          Mutated("remove_child", remove_child(doc, self, index), self,
                  remove_child(doc, self, index).ret)

PopChildOf ==
    /\ ~halted
    /\ \E self \in Handles(doc) :
          Mutated("pop_child", pop_child(doc, self), self, pop_child(doc, self).ret)

\* detach: the receiver of the change is the parent, if there is one.
DetachOf ==
    /\ ~halted
    /\ \E self \in Handles(doc) :
          Mutated("detach", detach(doc, self),
                  IF has_parent(doc, self) THEN parent(doc, self).v ELSE self,
                  <<ElemNode(self)>>)

NextFrame ==
    \/ PushChildOf
    \/ InsertChildOf
    \/ RemoveChildOf
    \/ PopChildOf
    \/ DetachOf

SpecFrame == InitFrame /\ [][NextFrame]_vars

\* ------------------------------------------------------------- the store
\* The records in the store of a Document of this part that is not parsed.
MaxStore == 2

\* Document::push_to_store
push_to_store(d, data_) ==
    [doc |-> [d EXCEPT !.counter = @ + 1, !.store = Append(@, data_)],
     res |-> "Ok",
     ret |-> <<ElemNode(d.counter)>>]

\* The builders finished on a Document of this part: without and with a text.
StoreBuilders ==
    {ElementBuilder("a", {}, {}, None), ElementBuilder("a", {}, {}, Some("t"))}

\* A new Document, or the start of a parse.
InitStore == Init \/ InitRT

\* The outcome r of a call that makes an element: the Document it leaves and
\* the call record, with the handle returned.
Created(op, r) ==
    /\ doc' = r.doc
    /\ last' = [op |-> op, res |-> r.res, changed |-> r.doc # doc,
                ret |-> r.ret[1].id]
    /\ UNCHANGED <<halted, rt>>

CreateElement ==
    /\ ~halted
    /\ rt.round = 0
    /\ Len(doc.store) < MaxStore
    /\ \E full_name \in Names : Created("Element_new", Element_new(doc, full_name))

CreateWithData ==
    /\ ~halted
    /\ rt.round = 0
    /\ Len(doc.store) < MaxStore
    /\ \E full_name \in Names, decls \in {{}, {<<"p", "u">>}} :
          Created("with_data", with_data(doc, full_name, {}, decls))

PushToStore ==
    /\ ~halted
    /\ rt.round = 0
    /\ Len(doc.store) < MaxStore
    /\ \E full_name \in Names :
          Created("push_to_store",
                  push_to_store(doc, [container EXCEPT !.full_name = full_name]))

BuildFinish ==
    /\ ~halted
    /\ rt.round = 0
    /\ Len(doc.store) < MaxStore
    /\ \E b \in StoreBuilders :
          /\ TextCount(finish(doc, b).doc) <= MaxText
          /\ Created("finish", finish(doc, b))

\* The calls that change the tree of a Document that is not being parsed.
Mutate ==
    /\ rt.round = 0
    /\ \/ PushChild
       \/ PushTo
       \/ InsertChild
       \/ RemoveChild
       \/ PopChild
       \/ ClearChildren
       \/ Detach
       \/ SetTextContent
       \/ SortChildrenCloned
       \/ DetachThenPush

NextStore ==
    \/ CreateElement
    \/ CreateWithData
    \/ PushToStore
    \/ BuildFinish
    \/ Mutate
    \/ ParseStart
    \/ ParseContent

SpecStore == InitStore /\ [][NextStore]_vars

\* ------------------------------------------------------ writing to a file
\* Document::write_with_opts: the text written, as the events a reader of it
\* meets; the declaration is written when the options say so.
write_with_opts(d, with_decl) ==
    write_event(write_nodes(d,
                            IF with_decl THEN write_decl(d, NewWriter)
                            ELSE NewWriter,
                            children(d, 0)),
                Eof).out

\* Document::write_str_with_opts
write_str_with_opts(d, with_decl) == write_with_opts(d, with_decl)

\* The file at the path: none, or a file the caller may write, empty or with
\* an earlier text in it.
NoFile == [exists |-> FALSE, content |-> <<>>]
Files ==
    {NoFile} \cup
    {[exists |-> TRUE, content |-> c] : c \in {<<>>, <<CommentEv(<<"o">>)>>}}

\* std::fs::File::open: the file opened for reading only; an error when there
\* is none.
File_open(file) ==
    IF file.exists THEN [ok |-> TRUE, file |-> file, write |-> FALSE]
    ELSE [ok |-> FALSE]

\* Write::write_all of the text on the opened file: nothing to do for an
\* empty text, an error on a file opened for reading only.
write_all(opened, text) ==
    IF Len(text) = 0 THEN [file |-> opened.file, res |-> "Ok"]
    ELSE IF ~opened.write THEN [file |-> opened.file, res |-> "Err"]
    ELSE [file |-> [opened.file EXCEPT !.content = @ \o text], res |-> "Ok"]

\* Document::write_file_with_opts: File::open(path)?, then write_with_opts on
\* the opened file.
write_file_with_opts(d, file, with_decl) ==
    IF ~File_open(file).ok THEN [file |-> file, res |-> "Err"]
    ELSE write_all(File_open(file), write_with_opts(d, with_decl))

\* Document::write_file
write_file(d, file) == write_file_with_opts(d, file, TRUE)

\* The file at the path before any call.
InitFile ==
    /\ doc = NewDocument
    /\ last = NoCall
    /\ halted = FALSE
    /\ rt \in {[round |-> 0, file |-> f] : f \in Files}

\* write_file_with_opts, with the declaration or without.
WriteFileWithOpts ==
    /\ \E with_decl \in BOOLEAN :
          /\ rt' = [rt EXCEPT !.file = write_file_with_opts(doc, rt.file,
                                                           with_decl).file]
          /\ last' = [op |-> "write_file_with_opts",
                      res |-> write_file_with_opts(doc, rt.file, with_decl).res,
                      changed |-> FALSE,
                      text |-> write_str_with_opts(doc, with_decl)]
    /\ UNCHANGED <<doc, halted>>

WriteFile ==
    /\ rt' = [rt EXCEPT !.file = write_file(doc, rt.file).file]
    /\ last' = [op |-> "write_file", res |-> write_file(doc, rt.file).res,
                changed |-> FALSE, text |-> write_str(doc)]
    /\ UNCHANGED <<doc, halted>>

NextFile ==
    \/ BuildPushTo
    \/ PushRootNode
    \/ WriteFileWithOpts
    \/ WriteFile

SpecFile == InitFile /\ [][NextFile]_vars

\* ------------------------------------------------------ sorting child lists
\* Two detached elements a and b beside the container.
InitSort ==
    /\ doc = Element_new(Element_new(NewDocument, "a").doc, "b").doc
    /\ last = NoCall
    /\ halted = FALSE
    /\ rt = NoRoundTrip

\* The nodes pushed besides the elements: a text and a comment.
SortedNodes == {TextNode(<<"t">>), CommentNode(<<"m">>)}

\* push_child with an element that has no parent or a node of SortedNodes.
PushSorted ==
    /\ ~halted
    /\ \E self \in Handles(doc) :
       \E node \in {ElemNode(x) : x \in {y \in Handles(doc) \ {0} :
                                             ~has_parent(doc, y)}}
                   \cup {n \in SortedNodes : TextCount(doc) < MaxContent} :
          Apply("push_child", push_child(doc, self, node))

\* Element::sort_children_cloned of any element under either comparison; the
\* call record keeps the element and the comparison.
SortChildrenOf ==
    /\ ~halted
    /\ \E self \in Handles(doc), cmp \in Compares :
          /\ doc' = sort_children_cloned(doc, self, cmp).doc
          /\ last' = [op |-> "sort_children_cloned", res |-> "Ok",
                      changed |-> doc' # doc, self |-> self, cmp |-> cmp]
    /\ UNCHANGED <<halted, rt>>

NextSort ==
    \/ PushSorted
    \/ SortChildrenOf

SpecSort == InitSort /\ [][NextSort]_vars

\* ------------------------------------------------------ the text of a node
\* The call panics and returns nothing.
Panics == [some |-> FALSE, panics |-> TRUE]

\* Node::possible_borrowed_text: the text content of an element is taken from
\* a new Document, whose store has the container only; Element::data unwraps
\* the record of the handle and panics when there is none.
possible_borrowed_text(node) ==
    IF node.kind \in {"Text", "CData", "PI"} THEN Some(node.text)
    ELSE IF node.kind = "Element"
    THEN IF node.id \in Handles(NewDocument)
         THEN Some(text_content(NewDocument, node.id))
         ELSE Panics
    ELSE None

\* Node::possible_borrowed_text of a node of a child list.
PossibleBorrowedText ==
    /\ ~halted
    /\ \E e \in Handles(doc) :
       \E i \in 1 .. Len(children(doc, e)) :
          /\ last' = [op |-> "possible_borrowed_text",
                      res |-> possible_borrowed_text(children(doc, e)[i]),
                      changed |-> FALSE, node |-> children(doc, e)[i]]
          /\ halted' = (possible_borrowed_text(children(doc, e)[i]) = Panics)
    /\ UNCHANGED <<doc, rt>>

\* Document::push_root_node with any element or a node of ContentNodes.
PushRoot ==
    /\ ~halted
    /\ \E node \in ElemNodes(doc)
                   \cup {n \in ContentNodes : TextCount(doc) < MaxContent} :
          Apply("push_root_node", push_root_node(doc, node))

NextNode ==
    \/ NewElement
    \/ PushRoot
    \/ PossibleBorrowedText

SpecNode == Init /\ [][NextNode]_vars

\* ------------------------------------------------- the builder's prefix
\* Element::separate_prefix_name: the parts before and after the first colon.
separate_prefix_name(full_name) ==
    IF \E i \in 1 .. Len(full_name) : full_name[i] = ":"
    THEN [prefix |->
              SubSeq(full_name, 1,
                     Min({i \in 1 .. Len(full_name) : full_name[i] = ":"}) - 1),
          name |->
              SubSeq(full_name,
                     Min({i \in 1 .. Len(full_name) : full_name[i] = ":"}) + 1,
                     Len(full_name))]
    ELSE [prefix |-> <<>>, name |-> full_name]

\* Element::prefix
Element_prefix(d, e) == separate_prefix_name(data(d, e).full_name).prefix

\* Element::build
Element_build(full_name) == ElementBuilder(full_name, {}, {}, None)

\* ElementBuilder::prefix
builder_prefix(b, new_prefix) ==
    [b EXCEPT !.full_name =
        IF new_prefix = <<>> THEN separate_prefix_name(b.full_name).name
        ELSE new_prefix \o separate_prefix_name(b.full_name).name]

\* The names given to Element::build and the prefixes given to prefix().
BuilderNames ==
    {<<"a">>, <<"b">>, <<"q", ":", "a">>, <<"q", ":", "b">>}
BuilderPrefixes == {<<>>, <<"p">>, <<"q">>, <<"x", "y">>}

\* Element::build(full_name).prefix(new_prefix).finish(doc)
BuildPrefixFinish ==
    /\ ~halted
    /\ Len(doc.store) < MaxElems
    /\ \E full_name \in BuilderNames, new_prefix \in BuilderPrefixes :
          /\ doc' = finish(doc, builder_prefix(Element_build(full_name),
                                               new_prefix)).doc
          /\ last' = [op |-> "prefix_finish", res |-> "Ok", changed |-> TRUE,
                      full_name |-> full_name, prefix |-> new_prefix,
                      ret |-> doc.counter]
    /\ UNCHANGED <<halted, rt>>

NextPfx == BuildPrefixFinish

SpecPfx == Init /\ [][NextPfx]_vars

\* ================================================================ claims
\* The nodes any call may be given, and the indices of a child list.
AnyNode == ElemNodes(doc) \cup TextNodes
Unchanged(r, res) == r.doc = doc /\ r.res = res

\* The places <<q, i>> where Node::Element(e) occurs in a child list.
Occurrences(d, e) ==
    UNION {{<<q, i>> : i \in {j \in 1 .. Len(children(d, q)) :
                                  children(d, q)[j] = ElemNode(e)}} :
           q \in Handles(d)}

\* s without its entry at the 1-based place i.
Without(s, i) == [k \in 1 .. (Len(s) - 1) |-> IF k < i THEN s[k] ELSE s[k + 1]]

\* C1: after any sequence of tree-mutation calls that returned normally, an
\* element's parent link is p exactly when Node::Element(e) occurs in p's child
\* list, and then it occurs once there and in no other child list.
C1_ParentChildConsistent ==
    ~halted =>
        \A e \in Handles(doc) :
            IF has_parent(doc, e)
            THEN /\ Cardinality(Occurrences(doc, e)) = 1
                 /\ \A o \in Occurrences(doc, e) : o[1] = parent(doc, e).v
            ELSE Occurrences(doc, e) = {}

C1_Witness ==
    /\ last.op = "sort_children_cloned"
    /\ last.changed
    /\ \E e \in Handles(doc) : has_parent(doc, e) /\ parent(doc, e).v # 0
    /\ \E e \in Handles(doc) \ {0} : ~has_parent(doc, e)

\* C2: for a non-container element e that has a parent, push_child(q, e),
\* push_to(e, q) and insert_child(q, i, e) return HasAParent for every q and i
\* and leave the Document as it was.
C2_HasAParentRejected ==
    /\ last.res = "HasAParent" => ~last.changed
    /\ ~halted =>
        \A e \in Handles(doc) \ {0} :
            has_parent(doc, e) =>
                \A q \in Handles(doc) :
                    /\ Unchanged(push_child(doc, q, ElemNode(e)), "HasAParent")
                    /\ Unchanged(push_to(doc, e, q), "HasAParent")
                    /\ \A i \in 0 .. (Len(children(doc, q)) + 1) :
                          Unchanged(insert_child(doc, q, i, ElemNode(e)), "HasAParent")

C2_Witness ==
    /\ last.op = "insert_child"
    /\ last.res = "HasAParent"
    /\ \E e \in Handles(doc) : has_parent(doc, e) /\ parent(doc, e).v # 0

\* C3: every call that would move, detach or reparent the container returns
\* ContainerCannotMove and changes nothing; the container never has a parent
\* and occurs in no child list.
C3_ContainerCannotMove ==
    /\ ~has_parent(doc, 0)
    /\ Occurrences(doc, 0) = {}
    /\ last.res = "ContainerCannotMove" => ~last.changed
    /\ Unchanged(detach(doc, 0), "ContainerCannotMove")
    /\ \A q \in Handles(doc) :
          /\ Unchanged(push_child(doc, q, ElemNode(0)), "ContainerCannotMove")
          /\ Unchanged(push_to(doc, 0, q), "ContainerCannotMove")
          /\ \A i \in 0 .. (Len(children(doc, q)) + 1) :
                Unchanged(insert_child(doc, q, i, ElemNode(0)), "ContainerCannotMove")

C3_Witness ==
    /\ last.op = "push_child"
    /\ last.res = "ContainerCannotMove"
    /\ Len(children(doc, 0)) > 0

\* C4: for every Document a successful parse produced, under every
\* combination of the four ReadOptions flags, writing it and parsing the
\* output with the same options succeeds and yields the same breakdown:
\* element names, attribute maps, namespace-declaration maps and child nodes
\* (kind and payload) in the same order.
C4_RoundTrip ==
    (rt.round = 2 /\ rt.pc = "done") =>
        /\ rt.res = "Ok"
        /\ root_elements(doc) = rt.expected

\* C5: for a non-container element e that has a parent and any element q,
\* detach(e) followed by push_child(q, e) returns Ok, and then e's parent is q
\* and e is the last child of q.
C5_DetachThenPush ==
    /\ last.op = "detach_then_push" => last.res = "Ok"
    /\ ~halted =>
        \A e \in Handles(doc) \ {0} :
            has_parent(doc, e) =>
                \A q \in Handles(doc) :
                    LET r1 == detach(doc, e)
                        r2 == push_child(r1.doc, q, ElemNode(e))
                        c == children(r2.doc, q)
                    IN /\ r1.res = "Ok"
                       /\ r2.res = "Ok"
                       /\ parent(r2.doc, e) = Some(q)
                       /\ Len(c) > 0
                       /\ c[Len(c)] = ElemNode(e)

C5_Witness ==
    /\ last.op = "detach_then_push"
    /\ last.res = "Ok"
    /\ last.changed
    /\ \E e \in Handles(doc) : has_parent(doc, e) /\ parent(doc, e).v # 0

\* The k-th element of the chain e, parent(e), parent(parent(e)), ...: None
\* once the chain has ended.
RECURSIVE Ancestor(_, _, _)
Ancestor(d, e, k) ==
    IF k = 0 THEN Some(e)
    ELSE LET a == Ancestor(d, e, k - 1)
         IN IF a.some /\ has_parent(d, a.v) THEN parent(d, a.v) ELSE None

\* The steps at which the chain from e meets an element declaring prefix. A
\* chain has at most Len(store) distinct elements.
Declaring(d, e, prefix) ==
    {k \in 0 .. Len(d.store) :
        /\ Ancestor(d, e, k).some
        /\ map_get(data(d, Ancestor(d, e, k).v).namespace_decls, prefix).some}

\* The declaration of prefix nearest to e on its chain, None without one.
NearestDeclared(d, e, prefix) ==
    IF Declaring(d, e, prefix) = {} THEN None
    ELSE LET k == CHOOSE k \in Declaring(d, e, prefix) :
                      \A j \in Declaring(d, e, prefix) : k <= j
         IN map_get(data(d, Ancestor(d, e, k).v).namespace_decls, prefix)

\* C6: for a prefix other than xml and xmlns, namespace_for_prefix(e, prefix)
\* returns the value declared by the nearest element of the chain e, parent(e),
\* ... that declares it, and None when no element of the chain declares it.
C6_NearestDeclaration ==
    \A e \in Handles(doc), prefix \in Prefixes \ {"xml", "xmlns"} :
        namespace_for_prefix(doc, e, prefix) = NearestDeclared(doc, e, prefix)

\* C7: namespace_for_prefix(e, "xml") and namespace_for_prefix(e, "xmlns")
\* return the two fixed URIs for every element and every state of the
\* Document, whatever e or its ancestors declare for these prefixes.
C7_ReservedPrefixes ==
    \A e \in Handles(doc) :
        /\ namespace_for_prefix(doc, e, "xml") = Some(XML_NS)
        /\ namespace_for_prefix(doc, e, "xmlns") = Some(XMLNS_NS)

C7_Witness ==
    /\ last.op = "namespace_for_prefix"
    /\ last.res = XML_NS
    /\ \E e \in Handles(doc) :
          /\ map_get(data(doc, e).namespace_decls, "xml") = Some("u")
          /\ has_parent(doc, e)
          /\ map_get(data(doc, parent(doc, e).v).namespace_decls, "xmlns") = Some("v")

\* C8: detach(e) on a non-container element with parent p removes the one
\* occurrence of e from p's child list, keeps the order of p's other children,
\* clears e's parent link and returns Ok; without a parent it returns Ok and
\* changes nothing.
C8_Detach ==
    ~halted =>
        \A e \in Handles(doc) \ {0} :
            LET r == detach(doc, e)
            IN /\ r.res = "Ok"
               /\ IF has_parent(doc, e)
                  THEN LET p == parent(doc, e).v
                           old == children(doc, p)
                           new == children(r.doc, p)
                       IN /\ ~has_parent(r.doc, e)
                          /\ Len(new) = Len(old) - 1
                          /\ \E i \in 1 .. Len(old) :
                                old[i] = ElemNode(e) /\ new = Without(old, i)
                          /\ \A i \in 1 .. Len(new) : new[i] # ElemNode(e)
                  ELSE r.doc = doc

C8_Witness ==
    /\ last.op = "detach"
    /\ last.res = "Ok"
    /\ last.changed
    /\ \E p \in Handles(doc) \ {0} : Len(children(doc, p)) > 0

\* C9: remove_child(p, i), pop_child(p) and clear_children(p) return the
\* node(s) they removed from p's child list (the node at index i, the last
\* node, all nodes in their order), every removed element has its parent link
\* cleared, and after clear_children the child list of p is empty.
C9_RemovePopClear ==
    ~halted =>
        \A p \in Handles(doc) :
            LET old == children(doc, p)
                Cleared(d, nodes) ==
                    \A k \in 1 .. Len(nodes) :
                        nodes[k].kind = "Element" => ~has_parent(d, nodes[k].id)
            IN /\ \A i \in 0 .. (Len(old) - 1) :
                     LET r == remove_child(doc, p, i)
                     IN /\ r.res = "Ok"
                        /\ r.ret = <<old[i + 1]>>
                        /\ children(r.doc, p) = Without(old, i + 1)
                        /\ Cleared(r.doc, r.ret)
               /\ LET r == pop_child(doc, p)
                  IN /\ r.res = "Ok"
                     /\ IF Len(old) = 0
                        THEN r.ret = <<>> /\ r.doc = doc
                        ELSE /\ r.ret = <<old[Len(old)]>>
                             /\ children(r.doc, p) = Without(old, Len(old))
                             /\ Cleared(r.doc, r.ret)
               /\ LET r == clear_children(doc, p)
                  IN /\ r.res = "Ok"
                     /\ r.ret = old
                     /\ children(r.doc, p) = <<>>
                     /\ Cleared(r.doc, r.ret)

C9_Witness ==
    /\ last.op = "clear_children"
    /\ last.res = "Ok"
    /\ last.changed
    /\ Cardinality({e \in Handles(doc) \ {0} : ~has_parent(doc, e)}) >= 2

\* C10: a successful push_child(p, n) makes n the last child of p, a
\* successful insert_child(p, i, n) with i <= len makes n the child at index
\* i, and in both the children present before keep their relative order.
C10_InsertionOrder ==
    ~halted =>
        \A p \in Handles(doc), n \in AnyNode :
            LET old == children(doc, p)
            IN /\ LET r == push_child(doc, p, n)
                      new == children(r.doc, p)
                  IN r.res = "Ok" =>
                        /\ Len(new) = Len(old) + 1
                        /\ new[Len(new)] = n
                        /\ Without(new, Len(new)) = old
               /\ \A i \in 0 .. Len(old) :
                     LET r == insert_child(doc, p, i, n)
                         new == children(r.doc, p)
                     IN r.res = "Ok" =>
                           /\ Len(new) = Len(old) + 1
                           /\ new[i + 1] = n
                           /\ Without(new, i + 1) = old

C10_Witness ==
    /\ last.op = "insert_child"
    /\ last.res = "Ok"
    /\ \E p \in Handles(doc) :
          /\ Len(children(doc, p)) >= 3
          /\ children(doc, p)[2].kind = "Element"
          /\ children(doc, p)[1].kind = "Text"

\* The event the tokenizer delivers next to the parser in progress.
NextEvent == read_event(rt.input, rt.opts.trim_text)

\* C11: parsing returns Ok only when, at the end of the input, the element
\* stack holds exactly the container; the end of the input met with an element
\* still open returns MissingClosingTag.
C11_EndOfInput ==
    /\ (rt.round > 0 /\ rt.pc = "done" /\ rt.res = "Ok") =>
          rt.element_stack = <<0>> /\ rt.input = <<>>
    /\ (rt.round > 0 /\ rt.pc = "done" /\ rt.res = "MissingClosingTag") =>
          Len(rt.element_stack) > 1
    /\ (rt.round > 0 /\ rt.pc = "parse_content" /\ NextEvent.ev = Eof) =>
          parse_content(Parser, rt.opts, rt.input).p.res =
              IF rt.element_stack = <<0>> THEN "Ok" ELSE "MissingClosingTag"

C11_Witness ==
    /\ rt.round = 1
    /\ rt.pc = "done"
    /\ last.op = "parse_content"
    /\ rt.res = "MissingClosingTag"
    /\ Len(rt.element_stack) = 2
    /\ Len(children(doc, 0)) = 1

\* C12: with require_decl set, parsing fails with MissingDeclaration whenever
\* the very first event the tokenizer produces is not an XML declaration,
\* under every combination of the other flags.
C12_RequireDecl ==
    [][(/\ rt.round > 0
        /\ rt.pc = "parse_start"
        /\ rt.opts.require_decl
        /\ NextEvent.ev.type # "Decl") =>
            rt'.res = "MissingDeclaration"]_vars

\* The errors that are a MalformedReason.
MalformedXML ==
    {"MissingDeclaration", "UnexpectedItem", "InvalidStandAloneValue",
     "MissingClosingTag", "GenericMalformedTree"}

\* C13: a declaration event is accepted only as the very first event of the
\* stream, where it sets the Document's version and standalone flag; a
\* declaration event at any later position (the second event of the stream,
\* or any event parse_content reads) makes the parse fail with a
\* malformed-document error.
C13_DeclarationFirstOnly ==
    [][/\ (/\ rt.round > 0
           /\ rt.pc = "parse_start"
           /\ NextEvent.ev.type = "Decl"
           /\ rt'.res \in {"going", "Ok"}) =>
              /\ doc'.version = NextEvent.ev.version
              /\ doc'.standalone =
                    IF NextEvent.ev.standalone.some
                    THEN Some(StandaloneValue_try_from(
                                  NextEvent.ev.standalone.v).v)
                    ELSE None
       /\ (/\ rt.round > 0
           /\ rt.pc = "parse_start"
           /\ NextEvent.ev.type # "Decl"
           /\ read_event(NextEvent.rest, rt.opts.trim_text).ev.type = "Decl") =>
              rt'.input = NextEvent.rest \/ rt'.res \in MalformedXML
       /\ (/\ rt.round > 0
           /\ rt.pc = "parse_content"
           /\ NextEvent.ev.type = "Decl") =>
              rt'.res \in MalformedXML]_vars

\* A step of the parser is due, and the event it handles: the one the
\* tokenizer delivers, or for parse_start the one after a skipped first text.
Parsing == rt.round > 0 /\ rt.pc \in {"parse_start", "parse_content"}
HandledEvent ==
    IF rt.pc = "parse_start" THEN skip_first_text(rt.opts, NextEvent).ev
    ELSE NextEvent.ev

\* What write_element writes for e alone: the events a reader of it meets.
Written(d, e) == write_element(d, NewWriter, e).out

\* An element whose only child is an empty text is written as a start tag and
\* an end tag with nothing between them, an element without children as an
\* empty tag.
WrittenApart(d) ==
    \A e \in Handles(d) \ {0} :
        /\ children(d, e) = <<TextNode(<<>>)>> =>
              Written(d, e) = <<StartEv(data(d, e).full_name,
                                        start_tag_attributes(d, e)),
                                EndEv(data(d, e).full_name)>>
        /\ children(d, e) = <<>> =>
              Written(d, e) = <<EmptyEv(data(d, e).full_name,
                                        start_tag_attributes(d, e))>>

\* After write then parse, the elements with an empty text as only child and
\* those without children are the same as before.
ReadApart ==
    (rt.round = 2 /\ rt.pc = "done" /\ rt.res = "Ok") =>
        \A e \in Handles(rt.first) \ {0} :
            /\ children(rt.first, e) = <<TextNode(<<>>)>> =>
                  children(doc, e) = <<TextNode(<<>>)>>
            /\ children(rt.first, e) = <<>> => children(doc, e) = <<>>

\* C14: with empty_text_node set, an element closed by an end tag with nothing
\* between the tags gets exactly one child, an empty text, and an element from
\* an empty tag gets none; the writer writes the first as a start tag and an
\* end tag and the second as an empty tag, so that the two are still apart
\* after write then parse. With empty_text_node unset both have no children.
C14_EmptyTextNode ==
    [][/\ (Parsing /\ HandledEvent.type = "End"
              /\ ~has_children(doc, stack_last(Parser))) =>
              children(doc', stack_last(Parser)) =
                  IF rt.opts.empty_text_node THEN <<TextNode(<<>>)>> ELSE <<>>
       /\ (Parsing /\ HandledEvent.type = "Empty") =>
              \A e \in Handles(doc') \ Handles(doc) :
                  /\ children(doc', e) = <<>>
                  /\ \A i \in 1 .. Len(rt'.element_stack) :
                        rt'.element_stack[i] # e
       /\ Parsing =>
              \A e \in Handles(doc) :
                  (\A i \in 1 .. Len(rt.element_stack) :
                        rt.element_stack[i] # e) =>
                      children(doc', e) = children(doc, e)
       /\ rt'.round > 0 => WrittenApart(doc')
       /\ ReadApart']_vars

C14_Witness ==
    /\ rt.round = 2
    /\ rt.pc = "done"
    /\ rt.res = "Ok"
    /\ rt.opts.empty_text_node
    /\ ~rt.opts.trim_text
    /\ \E e \in Handles(doc) : children(rt.first, e) = <<TextNode(<<>>)>>
    /\ \E e \in Handles(doc) \ {0} :
          children(rt.first, e) = <<>> /\ children(doc, e) = <<>>

\* An attribute name that declares a namespace: xmlns, or xmlns: and a prefix;
\* and the key such a declaration is stored under.
IsDeclName(n) ==
    \/ n = XMLNS
    \/ Len(n) > Len(XMLNS) /\ SubSeq(n, 1, Len(XMLNS) + 1) = XMLNS \o <<":">>
DeclKey(n) == IF n = XMLNS THEN <<>> ELSE SubSeq(n, Len(XMLNS) + 2, Len(n))

\* C15: when a start or empty tag is parsed, an attribute is stored in the
\* namespace declarations if and only if its name is xmlns (key: the empty
\* string) or begins with xmlns: (key: the part after the colon); every other
\* attribute, one whose name merely starts with the letters xmlns included, is
\* stored in the attributes under its full name.
C15_AttributeSplit ==
    [][(/\ Parsing
        /\ HandledEvent.type \in {"Start", "Empty"}
        /\ rt'.res = "going") =>
            \A e \in Handles(doc') \ Handles(doc) :
                LET attrs == HandledEvent.attrs
                    decls == {i \in 1 .. Len(attrs) : IsDeclName(attrs[i][1])}
                    value(i) == attribute_value(rt.opts, attrs[i][2]).v
                IN /\ data(doc', e).namespace_decls =
                         {<<DeclKey(attrs[i][1]), value(i)>> : i \in decls}
                   /\ data(doc', e).attributes =
                         {<<attrs[i][1], value(i)>> :
                              i \in (1 .. Len(attrs)) \ decls}]_vars

\* The three steps of the attribute-value normalisation: CR, LF and TAB become
\* spaces, a space after a space is dropped, and the spaces at both ends are
\* dropped.
ToSpaces(s) ==
    [i \in 1 .. Len(s) |-> IF s[i] \in {"\r", "\n", "\t"} THEN " " ELSE s[i]]
Collapsed(s) ==
    LET f[i \in 0 .. Len(s)] ==
            IF i = 0 THEN <<>>
            ELSE IF s[i] = " " /\ i > 1 /\ s[i - 1] = " " THEN f[i - 1]
            ELSE Append(f[i - 1], s[i])
    IN f[Len(s)]
Stripped(s) ==
    LET keep == {i \in 1 .. Len(s) : s[i] # " "}
    IN IF keep = {} THEN <<>>
       ELSE SubSeq(s, Min(keep), CHOOSE i \in keep : \A j \in keep : j <= i)
Normalized(s) == Stripped(Collapsed(ToSpaces(s)))

\* C16: with normalize_attribute_value_space set, the stored attribute value
\* is the raw value with CR, LF and TAB replaced by spaces, runs of spaces
\* collapsed, leading and trailing spaces dropped, and only then the
\* references resolved; the normalised value has no space at either end and
\* no two adjacent spaces, and &#xD; survives as the carriage return.
C16_NormalizeThenUnescape ==
    [][(/\ Parsing
        /\ HandledEvent.type \in {"Start", "Empty"}
        /\ rt.opts.normalize_attribute_value_space
        /\ rt'.res = "going") =>
            \A e \in Handles(doc') \ Handles(doc) :
                LET attrs == HandledEvent.attrs
                IN /\ data(doc', e).attributes =
                         {<<attrs[i][1],
                            unescape_to_string(Normalized(attrs[i][2])).v>> :
                              i \in 1 .. Len(attrs)}
                   /\ \A i \in 1 .. Len(attrs) :
                         LET n == normalize_space(attrs[i][2])
                         IN /\ n = Normalized(attrs[i][2])
                            /\ Len(n) > 0 => n[1] # " " /\ n[Len(n)] # " "
                            /\ \A k \in 1 .. (Len(n) - 1) :
                                  ~(n[k] = " " /\ n[k + 1] = " ")]_vars

C16_Witness ==
    /\ rt.round = 1
    /\ rt.pc = "parse_content"
    /\ last.op = "parse_start"
    /\ rt.opts.normalize_attribute_value_space
    /\ data(doc, 1).attributes = {<<(<<"x">>), <<"a", " ", "\r">> >>}

\* The last child of the element on top of the stack.
LastPushed(d, p) == children(d, stack_last(p))[Len(children(d, stack_last(p)))]

\* C17: on read, the payload stored for a comment, a CDATA section or a
\* processing instruction is exactly the character sequence the tokenizer
\* reported: no entity is resolved and no character is replaced or escaped.
C17_VerbatimRead ==
    [][(/\ Parsing
        /\ HandledEvent.type \in {"Comment", "CData", "PI"}
        /\ rt'.res = "going") =>
            LastPushed(doc', Parser) =
                [kind |-> HandledEvent.type, text |-> HandledEvent.content]]_vars

\* The text has just been written from rt.first.
JustWritten == rt.round = 2 /\ rt.pc = "parse_start" /\ last.op = "write_str"

\* The events of the written text that are nodes of the kind.
WrittenPayloads(kind) ==
    {rt.input[i].content :
        i \in {j \in 1 .. Len(rt.input) : rt.input[j].type = kind}}

\* C18: on write, the payload of every comment, CDATA, processing-instruction
\* and doctype node is emitted verbatim (a doctype after the single space the
\* writer puts before it): none of <, >, &, " and ' is replaced by an entity.
C18_VerbatimWrite ==
    JustWritten =>
        \A i \in 1 .. Len(children(rt.first, 0)) :
            LET node == children(rt.first, 0)[i]
            IN /\ node.kind \in {"Comment", "CData", "PI"} =>
                     WrittenPayloads(node.kind) = {node.text}
               /\ node.kind = "DocType" =>
                     WrittenPayloads("DocType") = {<<" ">> \o node.text}

\* The tags of the written text that open the element named n.
WrittenTags(n) ==
    {rt.input[i] :
        i \in {j \in 1 .. Len(rt.input) :
                  rt.input[j].type \in {"Start", "Empty"} /\ rt.input[j].name = n}}

\* C19: on write, each attribute value and each namespace-declaration value
\* is escaped exactly once (each of <, >, &, " and ' replaced by its
\* predefined entity), so that parsing the written start tag yields the
\* original value, for every value.
C19_AttributeEscapedOnce ==
    /\ JustWritten =>
          \A e \in Handles(rt.first) \ {0} :
              \A tag \in WrittenTags(data(rt.first, e).full_name) :
                  {tag.attrs[i] : i \in 1 .. Len(tag.attrs)} =
                      {<<a[1], escape(a[2])>> : a \in data(rt.first, e).attributes}
                      \cup {<<XMLNS \o <<":">> \o n[1], escape(n[2])>> :
                               n \in data(rt.first, e).namespace_decls}
    /\ (rt.round = 2 /\ rt.pc = "done") =>
          \A e \in Handles(rt.first) \ {0} :
              (\/ data(rt.first, e).attributes # {}
               \/ data(rt.first, e).namespace_decls # {}) =>
                  /\ rt.res = "Ok"
                  /\ data(doc, e).attributes = data(rt.first, e).attributes
                  /\ data(doc, e).namespace_decls =
                         data(rt.first, e).namespace_decls

\* The text &lt;Text&amp;&apos;&gt; as the tokenizer reports it.
EscapedTestText ==
    <<"&", "l", "t", ";", "T", "e", "x", "t", "&", "a", "m", "p", ";",
      "&", "a", "p", "o", "s", ";", "&", "g", "t", ";">>

\* After write then parse, an element whose only child was a text without
\* leading or trailing whitespace has that text as its text content.
TextReadBack ==
    (rt.round = 2 /\ rt.pc = "done") =>
        \A e \in Handles(rt.first) \ {0} :
            \A s \in Payloads \cup {TestText} :
                (/\ children(rt.first, e) = <<TextNode(s)>>
                 /\ trim(s) = s) =>
                    /\ rt.res = "Ok"
                    /\ text_content(doc, e) = s

\* C20: text is unescaped on read and escaped on write as inverses: the text
\* &lt;Text&amp;&apos;&gt; is read as <Text&'>, and for every text s without
\* leading or trailing whitespace, writing a Text(s) child and parsing the
\* output yields the text content s.
C20_TextInverse ==
    [][/\ (/\ Parsing
           /\ HandledEvent.type = "Text"
           /\ HandledEvent.content = EscapedTestText) =>
              /\ rt'.res = "going"
              /\ text_content(doc', stack_last(Parser)) = TestText
       /\ TextReadBack']_vars

C20_Witness ==
    /\ rt.round = 2
    /\ rt.pc = "done"
    /\ rt.res = "Ok"
    /\ ~rt.opts.trim_text
    /\ 1 \in Handles(rt.first)
    /\ children(rt.first, 1) = <<TextNode(<<"t", " ", "&">>)>>
    /\ text_content(doc, 1) = <<"t", " ", "&">>

\* A standalone value in lower case, for the values of the inputs.
to_ascii_lowercase(v) ==
    CASE v \in {"yes", "Yes", "YES", "yEs"} -> "yes"
      [] v \in {"no", "No", "NO", "nO"} -> "no"
      [] OTHER -> v

\* C21: the standalone value of a declaration is accepted exactly when it is
\* yes or no compared without regard to case, and is then stored as the
\* matching flag; any other value makes the parse fail with the
\* invalid-standalone error.
C21_StandaloneValue ==
    [][(/\ rt.round > 0
        /\ rt.pc = "parse_start"
        /\ NextEvent.ev.type = "Decl"
        /\ NextEvent.ev.standalone.some) =>
            IF to_ascii_lowercase(NextEvent.ev.standalone.v) = "yes"
            THEN rt'.res = "going" /\ doc'.standalone = Some("Yes")
            ELSE IF to_ascii_lowercase(NextEvent.ev.standalone.v) = "no"
            THEN rt'.res = "going" /\ doc'.standalone = Some("No")
            ELSE rt'.res = "InvalidStandAloneValue"]_vars

\* The positions of the source bytes after the declaration, in order.
AfterDecl ==
    [i \in 1 .. (Len(rt.source.bytes) - rt.source.after_decl) |->
        rt.source.after_decl + i]

IsPrefix(s, t) == Len(s) <= Len(t) /\ s = SubSeq(t, 1, Len(s))

\* C22: when the decoder is replaced after the declaration, every source byte
\* after the declaration reaches the tokenizer exactly once and in order,
\* whether it was unread, buffered but undecoded, or decoded but not yet
\* consumed at the swap, for a swap from no decoder to a decoder, from a
\* decoder to another and from a decoder to none.
C22_NoLossAtSwap ==
    rt.swapped # "no" =>
        /\ IsPrefix(rt.delivered, AfterDecl)
        /\ rt.pc = "done" => rt.delivered = AfterDecl

\* The paths (child indices, one per level) from a node to the nodes under it
\* that are not elements, at most k levels down.
RECURSIVE LeafPaths(_, _, _)
LeafPaths(d, node, k) ==
    IF node.kind # "Element" THEN {<<>>}
    ELSE IF k = 0 THEN {}
    ELSE UNION {{<<i>> \o p :
                    p \in LeafPaths(d, children(d, node.id)[i], k - 1)} :
                i \in 1 .. Len(children(d, node.id))}

\* The node a path leads to.
RECURSIVE NodeAt(_, _, _)
NodeAt(d, node, p) ==
    IF p = <<>> THEN node
    ELSE NodeAt(d, children(d, node.id)[Head(p)], Tail(p))

\* Document order of two paths that lead to different nodes.
Before(p, q) ==
    \E k \in 1 .. Len(p) :
        /\ k <= Len(q)
        /\ p[k] < q[k]
        /\ \A j \in 1 .. (k - 1) : p[j] = q[j]

\* What a node gives to the text content.
Contribution(node) ==
    IF node.kind \in {"Text", "CData", "PI"} THEN node.text ELSE <<>>

\* The contributions of the nodes the paths lead to, in document order.
RECURSIVE InDocumentOrder(_, _, _)
InDocumentOrder(d, e, paths) ==
    IF paths = {} THEN <<>>
    ELSE Contribution(NodeAt(d, ElemNode(e),
                             CHOOSE p \in paths :
                                 \A q \in paths \ {p} : Before(p, q)))
         \o InDocumentOrder(d, e,
                            paths \ {CHOOSE p \in paths :
                                         \A q \in paths \ {p} : Before(p, q)})

\* C23: text_content of an element is the concatenation, in document order,
\* of the payloads of the Text, CData and PI nodes among its descendants,
\* Comment and DocType payloads giving nothing; text_content of a Text, CData
\* or PI node is its payload.
C23_TextContent ==
    /\ (last.op = "text_content" /\ ~halted) =>
           last.res = InDocumentOrder(doc, last.self,
                                      LeafPaths(doc, ElemNode(last.self),
                                                Len(doc.store)))
    /\ last.op = "Node_text_content" =>
           last.res = IF last.node.kind \in {"Text", "CData", "PI"}
                      THEN last.node.text ELSE <<>>

C23_Witness ==
    /\ last.op = "text_content"
    /\ last.self = 0
    /\ last.res = <<"p", "t">>
    /\ \E e \in Handles(doc) \ {0} :
          /\ children(doc, 0) = <<ElemNode(e), TextNode(<<"t">>)>>
          /\ children(doc, e) = <<PINode(<<"p">>)>>

\* The Document holds no node: no element but the container, and no node in
\* the container's child list.
HasNoNodes(d) == Len(d.store) = 1 /\ Len(children(d, 0)) = 0

\* C24: is_empty is true exactly when the Document has no nodes: true for a
\* new Document, false as soon as a node of any kind has been added to it or
\* a text with a node has been parsed into it.
C24_IsEmpty == is_empty(doc) <=> HasNoNodes(doc)

\* C25: ElementBuilder::prefix(p) removes the previous prefix and attaches
\* the new one: for a non-empty p without a colon the finished element has the
\* prefix p and the local name the builder had, and for the empty p it has no
\* prefix and the same local name.
C25_BuilderPrefix ==
    (/\ last.op = "prefix_finish"
     /\ \A i \in 1 .. Len(last.prefix) : last.prefix[i] # ":") =>
        /\ Element_prefix(doc, last.ret) = last.prefix
        /\ name(doc, last.ret) = separate_prefix_name(last.full_name).name

\* C26: possible_borrowed_text returns Some(payload) for a Text, CData or PI
\* node, Some(string) for every Element node, without failing, and None for
\* a Comment or DocType node.
C26_PossibleBorrowedText ==
    last.op = "possible_borrowed_text" =>
        IF last.node.kind \in {"Text", "CData", "PI"}
        THEN last.res = Some(last.node.text)
        ELSE IF last.node.kind = "Element"
        THEN last.res # Panics /\ last.res.some
        ELSE last.res = None

\* The entries of s that compare Equal to x, in their order in s.
EqualTo(s, cmp, x) == SelectSeq(s, LAMBDA y : compare(cmp, y, x) = "Equal")

\* r holds the entries of s in the order of compare, entries that compare
\* Equal in the order they have in s.
StablySorted(s, r, cmp) ==
    /\ Len(r) = Len(s)
    /\ \A i, j \in 1 .. Len(r) : i < j => compare(cmp, r[i], r[j]) # "Greater"
    /\ \A i \in 1 .. Len(s) : EqualTo(r, cmp, s[i]) = EqualTo(s, cmp, s[i])

\* A text of line breaks and spaces only.
IsIndentation(ev) ==
    /\ ev.type = "Text"
    /\ \A i \in 1 .. Len(ev.content) : ev.content[i] \in {"\n", " "}

\* The nodes a reader of the events meets outside every element: the events
\* at depth 0 that are neither an end tag nor indentation.
RECURSIVE OuterFrom(_, _)
OuterFrom(out, depth) ==
    IF Len(out) = 0 THEN <<>>
    ELSE IF Head(out).type = "Start"
    THEN (IF depth = 0 THEN <<Head(out)>> ELSE <<>>)
            \o OuterFrom(Tail(out), depth + 1)
    ELSE IF Head(out).type = "End" THEN OuterFrom(Tail(out), depth - 1)
    ELSE (IF depth = 0 /\ ~IsIndentation(Head(out)) THEN <<Head(out)>> ELSE <<>>)
            \o OuterFrom(Tail(out), depth)

OuterNodes(out) == OuterFrom(out, 0)

\* What a reader meets for the nodes of a child list written one after the
\* other: a tag with the element's name, the payload of the other nodes (a
\* doctype behind a space), texts next to each other as one text.
RECURSIVE ReadAs(_, _)
ReadAs(d, nodes) ==
    IF Len(nodes) = 0 THEN <<>>
    ELSE LET n == nodes[Len(nodes)]
             front == ReadAs(d, SubSeq(nodes, 1, Len(nodes) - 1))
         IN CASE n.kind = "Element" ->
                    Append(front, [type |-> "Element", name |-> data(d, n.id).full_name])
              [] n.kind = "Text" -> put_text(front, n.text)
              [] n.kind = "DocType" ->
                    Append(front, [type |-> "DocType", content |-> <<" ">> \o n.text])
              [] OTHER -> Append(front, [type |-> n.kind, content |-> n.text])

\* The nodes of the events, a start tag and an empty tag as their element.
AsNodes(out) ==
    [i \in 1 .. Len(out) |->
        IF out[i].type \in {"Start", "Empty"}
        THEN [type |-> "Element", name |-> out[i].name]
        ELSE out[i]]

\* C27: sort_children_cloned leaves the child list of the element a
\* permutation of what it was, ordered by the comparison, with entries that
\* compare equal in their previous relative order; no other record and no
\* parent link changes, and a write that follows emits the children in the
\* sorted order (of an element that is not under itself: writing one that is
\* does not end).
C27_SortChildren ==
    [][last'.op = "sort_children_cloned" =>
          /\ StablySorted(children(doc, last'.self), children(doc', last'.self),
                          last'.cmp)
          /\ doc' = set_children(doc, last'.self, children(doc', last'.self))
          /\ \A e \in Handles(doc) : data(doc', e).parent = data(doc, e).parent
          /\ ~NeverEnds(doc', last'.self) =>
                AsNodes(OuterNodes(write_nodes(doc', NewWriter,
                                               children(doc', last'.self)).out))
                   = ReadAs(doc', children(doc', last'.self))]_vars

\* A comment, the element a, a text and the element b under the container
\* have been sorted with the elements first: a, b, the comment, the text.
C27_Witness ==
    /\ last.op = "sort_children_cloned"
    /\ last.self = 0
    /\ last.cmp = "elements_first"
    /\ last.changed
    /\ children(doc, 0) = <<ElemNode(1), ElemNode(2), CommentNode(<<"m">>),
                            TextNode(<<"t">>)>>
    /\ AsNodes(OuterNodes(write_str(doc)))[2] = [type |-> "Element", name |-> "a"]

\* C28: write_file and write_file_with_opts return Ok for a path the caller
\* may write, and leave in the file at the path exactly the text write_str and
\* write_str_with_opts produce for the same document and options.
C28_WriteFile ==
    last.op \in {"write_file", "write_file_with_opts"} =>
        /\ last.res = "Ok"
        /\ rt.file = [exists |-> TRUE, content |-> last.text]

\* The handles a Document holds in its child lists and parent links.
HeldHandles(d) ==
    UNION {{children(d, e)[i].id :
               i \in {j \in 1 .. Len(children(d, e)) :
                         children(d, e)[j].kind = "Element"}}
           \cup (IF has_parent(d, e) THEN {parent(d, e).v} ELSE {}) :
           e \in Handles(d)}

\* The handles the calls have handed back and a caller or the parser still
\* holds: the one the last call returned and those on the parser's stack.
ReturnedHandles ==
    (IF last.op \in {"Element_new", "with_data", "push_to_store", "finish"}
     THEN {last.ret} ELSE {})
    \cup (IF rt.round > 0
          THEN {rt.element_stack[i] : i \in 1 .. Len(rt.element_stack)}
          ELSE {})

\* C29: in every reachable state of a Document the store holds counter
\* records, record 0 is the container (no name, no parent), and every handle
\* returned or held is smaller than counter.
C29_StoreCounter ==
    /\ Len(doc.store) = doc.counter
    /\ doc.counter >= 1
    /\ data(doc, 0).full_name = container.full_name
    /\ data(doc, 0).parent = None
    /\ \A h \in HeldHandles(doc) \cup ReturnedHandles : h < doc.counter

\* A parse has made the element of a start tag: it is under the container
\* and on the stack.
C29_Witness ==
    /\ rt.round = 1
    /\ rt.pc = "parse_content"
    /\ rt.element_stack = <<0, 1>>
    /\ doc.counter = 2
    /\ children(doc, 0) = <<ElemNode(1)>>

\* The calls that make an element.
CreationOps == {"Element_new", "with_data", "push_to_store", "finish"}

\* The parser handles a start tag or an empty tag and goes on.
TagHandled ==
    /\ Parsing
    /\ HandledEvent.type \in {"Start", "Empty"}
    /\ rt'.res = "going"

\* Making an element appends exactly one record, behind the records there
\* were, and the handle handed back is `counter` plus offset: for a call the
\* handle it returns, for a tag the handle the parser pushes under the parent
\* and, for a start tag, on its stack.
OneRecordAppended(offset) ==
    /\ last'.op \in CreationOps =>
          /\ Len(doc'.store) = Len(doc.store) + 1
          /\ SubSeq(doc'.store, 1, Len(doc.store)) = doc.store
          /\ last'.ret = doc.counter + offset
    /\ TagHandled =>
          /\ Len(doc'.store) = Len(doc.store) + 1
          /\ children(doc', stack_last(Parser)) # <<>>
          /\ LastPushed(doc', Parser) = ElemNode(doc.counter + offset)
          /\ HandledEvent.type = "Start" =>
                rt'.element_stack = Append(rt.element_stack, doc.counter + offset)

\* C30 as stated: creating an element appends exactly one record and returns
\* a handle one greater than the previous counter.
C30_HandleAfterCounter == [][OneRecordAppended(1)]_vars

\* C30: creating an element appends exactly one record and returns the handle
\* equal to the previous counter, which is one less than the new counter.
C30_HandleIsCounter ==
    [][OneRecordAppended(0) /\ (last'.op \in CreationOps \/ TagHandled
                                   => doc'.counter = doc.counter + 1)]_vars

\* with_data has made the first element of a Document: handle 1, counter 2.
C30_Witness ==
    /\ last.op = "with_data"
    /\ last.ret = 1
    /\ doc.counter = 2
    /\ Len(doc.store) = 2

\* The elements a step takes out of a child list: they had a parent and have
\* none after the step.
Removed == {e \in Handles(doc) : has_parent(doc, e) /\ ~has_parent(doc', e)}

\* C31: no operation removes, compacts or reuses records: number_of_elements
\* never decreases, a creation returns a handle that no earlier creation
\* returned, and the record of an element that is removed or detached reads
\* the same name, attributes, namespace declarations and children as before.
C31_RecordsStay ==
    [][/\ number_of_elements(doc') >= number_of_elements(doc)
       /\ last'.op \in CreationOps => last'.ret \notin Handles(doc)
       /\ \A e \in Removed :
             /\ data(doc', e).full_name = data(doc, e).full_name
             /\ data(doc', e).attributes = data(doc, e).attributes
             /\ data(doc', e).namespace_decls = data(doc, e).namespace_decls
             /\ children(doc', e) = children(doc, e)]_vars

\* The element is the node the call added or removed.
IsTheNode(e) ==
    last'.node # <<>> /\ last'.node[1].kind = "Element" /\ last'.node[1].id = e

\* C32: a successful push_child, insert_child, remove_child, pop_child or
\* detach changes only the child list of the one parent involved and the
\* parent link of the one node added or removed: every other child list and
\* parent link, every name, attribute map and namespace-declaration map, the
\* number of records and the document's version and standalone flag are
\* unchanged.
C32_Frame ==
    [][(/\ last'.op \in {"push_child", "insert_child", "remove_child",
                         "pop_child", "detach"}
        /\ last'.res = "Ok") =>
           /\ Len(doc'.store) = Len(doc.store)
           /\ doc'.counter = doc.counter
           /\ doc'.version = doc.version
           /\ doc'.standalone = doc.standalone
           /\ \A e \in Handles(doc) :
                 /\ e # last'.self => children(doc', e) = children(doc, e)
                 /\ ~IsTheNode(e) => parent(doc', e) = parent(doc, e)
                 /\ data(doc', e).full_name = data(doc, e).full_name
                 /\ data(doc', e).attributes = data(doc, e).attributes
                 /\ data(doc', e).namespace_decls = data(doc, e).namespace_decls]_vars

\* Element 2 has been detached from element 1, which keeps a text and is
\* itself under the container.
C32_Witness ==
    /\ last.op = "detach"
    /\ last.res = "Ok"
    /\ last.changed
    /\ last.self = 1
    /\ last.node = <<ElemNode(2)>>
    /\ children(doc, 1) = <<TextNode("t")>>
    /\ children(doc, 0) = <<ElemNode(1)>>
    /\ ~has_parent(doc, 2)

\* The decoder and the number of bytes consumed the table gives for an input.
SniffTable(lead) ==
    IF IsPrefix(<<60, 63>>, lead) THEN [decoder |-> None, consumed |-> 0]
    ELSE IF IsPrefix(<<254, 255>>, lead)
    THEN [decoder |-> Some("UTF_16BE"), consumed |-> 2]
    ELSE IF IsPrefix(<<255, 254>>, lead)
    THEN [decoder |-> Some("UTF_16LE"), consumed |-> 2]
    ELSE IF IsPrefix(<<239, 187, 191>>, lead)
    THEN [decoder |-> None, consumed |-> 3]
    ELSE IF IsPrefix(<<0, 60, 0, 63>>, lead)
    THEN [decoder |-> Some("UTF_16BE"), consumed |-> 0]
    ELSE IF IsPrefix(<<60, 0, 63, 0>>, lead)
    THEN [decoder |-> Some("UTF_16LE"), consumed |-> 0]
    ELSE [decoder |-> None, consumed |-> 0]

\* C33: sniffing maps the leading bytes to a decoder and a number of bytes
\* consumed: 3C 3F to none and 0, FE FF to UTF-16BE and 2, FF FE to UTF-16LE
\* and 2, EF BB BF to none and 3, 00 3C 00 3F to UTF-16BE and 0, 3C 00 3F 00
\* to UTF-16LE and 0, anything else to none and 0.
C33_Sniffing ==
    rt.pc = "sniffed" =>
        /\ rt.encoding = SniffTable(rt.lead).decoder
        /\ rt.reader.undecoded_pos = SniffTable(rt.lead).consumed
        /\ rt.reader.undecoded = Numbered(rt.lead)
        /\ rt.reader.undecoded_cap = Len(rt.lead)

\* FE FF 00 3C has been sniffed: UTF-16BE, and the mark is consumed.
C33_Witness ==
    /\ rt.pc = "sniffed"
    /\ rt.lead = <<254, 255, 0, 60>>
    /\ rt.encoding = Some("UTF_16BE")
    /\ rt.reader.undecoded_pos = 2

\* The source starts with the byte order mark of UTF-16, either one.
HasUtf16Mark(source) ==
    /\ Len(source.bytes) >= 2
    /\ <<source.bytes[1].v, source.bytes[2].v>> \in {<<254, 255>>, <<255, 254>>}

\* The encoding a label names, UTF-8 when there is no decoder.
Named(encoding) == IF encoding.some THEN encoding.v ELSE "UTF_8"

\* C34: after the declaration is read the decoder is swapped only when the
\* declaration's encoding attribute names an encoding different from the
\* initial one, and not when the label UTF-16 meets a sniffed UTF-16BE; for an
\* input with a UTF-16 byte order mark whose declaration has no encoding
\* attribute the sniffed decoder stays installed for the rest of the stream.
C34_SwapOnlyWhenNamed ==
    rt.pc \in {"content", "done"} =>
        /\ rt.swapped # "no" =>
              /\ rt.declared.some
              /\ Named(for_label(rt.declared.v)) # Named(rt.init_encoding)
              /\ ~(rt.declared.v = "UTF-16" /\ rt.init_encoding = Some("UTF_16BE"))
        /\ (HasUtf16Mark(rt.source) /\ ~rt.declared.some /\ ~rt.opts_encoding.some) =>
              /\ rt.reader.decoder.some
              /\ rt.reader.decoder.v.encoding = rt.init_encoding.v


\* C35: the decoding reader reports the end of the input, an empty slice
\* from fill_buf, only after the underlying source has returned a read of no
\* bytes: a read of some bytes that hold no complete character is not
\* reported as the end.
C35_EndOnlyAfterZeroRead ==
    rt.pc = "done" => /\ rt.reader.done
                      /\ rt.reader.inner = <<>>


\* What the tokenizer gets of a source that is read in one piece.
WholeRead(encoding, source) ==
    Chars(decode_to_utf8(new_decoder_without_bom_handling(encoding),
                         source, TRUE).out)

RECURSIVE ChainEnds(_, _, _)
ChainEnds(d, e, k) ==
    IF ~has_parent(d, e) THEN TRUE
    ELSE IF k = 0 THEN FALSE
    ELSE ChainEnds(d, parent(d, e).v, k - 1)

\* C37: after any sequence of successful tree mutations the parent links
\* hold no cycle: from every element the parent chain ends at an element
\* without parent, so the walk of namespace_for_prefix and the recursion over
\* the children (children_recursive, text_content, the serializer) end for
\* every element, an element pushed into itself included.
C37_NoParentCycle ==
    ~halted =>
        \A e \in Handles(doc) :
            /\ ChainEnds(doc, e, Len(doc.store))
            /\ namespace_for_prefix(doc, e, "") # Diverges
            /\ ~NeverEnds(doc, e)


\* The start and empty-element tags of a text.
Tags(text) ==
    Cardinality({i \in 1 .. Len(text) : text[i].type \in {"Start", "Empty"}})

\* C38: in the Document of a successful parse every record other than the
\* container is reached from the container through child lists and there is
\* one record for the container and one for each start or empty-element tag
\* of the text; each element made for such a tag is the last child of the
\* element that was on top of the stack when the tag arrived, with that
\* element as its parent.
C38_ParsedTree ==
    [][/\ (rt'.pc = "done" /\ rt'.res = "Ok") =>
              /\ Reached(doc', {0}, Len(doc'.store)) = Handles(doc')
              /\ number_of_elements(doc') = 1 + Tags(rt'.text)
       /\ TagHandled =>
              /\ children(doc', stack_last(Parser)) # <<>>
              /\ LastPushed(doc', Parser) = ElemNode(Len(doc.store))
              /\ parent(doc', Len(doc.store)) = Some(stack_last(Parser))]_vars

C38_Witness ==
    /\ rt.pc = "done"
    /\ rt.res = "Ok"
    /\ Tags(rt.text) = 3
    /\ number_of_elements(doc) = 4
    /\ children(doc, 0) = <<ElemNode(1)>>
    /\ children(doc, 1) = <<ElemNode(2), ElemNode(3)>>
    /\ parent(doc, 3) = Some(1)


\* C39: insert_child with an index greater than the number of children of
\* the receiver fails without modifying any record: a parentless element
\* given as the node has no parent after the call and the child list of the
\* receiver is as it was.
C39_FailedInsert ==
    [][(last'.op = "insert_child" /\ last'.res = "panic") =>
           /\ doc' = doc
           /\ children(doc', last'.self) = children(doc, last'.self)
           /\ \A e \in Handles(doc) :
                  ~has_parent(doc, e) => ~has_parent(doc', e)]_vars

====
